---- MODULE Spec2Model ----
(***************************************************************************)
(* A model of the CHIP-8 virtual machine of this repository: the machine   *)
(* state (CpuState), the fetch/decode/execute step (Chip8VM::tick), the    *)
(* ordered extension dispatch, and the Super-CHIP and XO-Chip handlers.    *)
(*                                                                         *)
(* Representation.  A [bool; N] array (screen, plane_1, plane_2) is kept   *)
(* as the set of its indices that hold true.  memory, [u8; RAM_SIZE], is   *)
(* kept as the function from the addresses whose byte differs from the     *)
(* image reset() leaves (the font, then zeros) to that byte; Mem reads a   *)
(* cell and MemUpdate writes cells, so two memories are equal exactly when *)
(* the arrays are.  Every other array is a function on its index range.    *)
(* A call that returns Err(msg) is recorded by its message; a Rust panic   *)
(* (index out of range, slice length mismatch, arithmetic overflow) is     *)
(* recorded as "panic" and ends the process: no operation is enabled       *)
(* afterwards.                                                             *)
(***************************************************************************)
EXTENDS Integers, Sequences, FiniteSets, TLC

(***************************************************************************)
(* Program constants (crate::conf).                                        *)
(***************************************************************************)
RAM_SIZE == 4096
REGISTER_COUNT == 16
STACK_SIZE == 16
KEYS_COUNT == 16
FLAG_COUNT == 8
START_ADDR == 512
SCREEN_WIDTH == 64
SCREEN_HEIGHT == 32
HI_RES_WIDTH == 128
HI_RES_HEIGHT == 64
XO_RES_WIDTH == 128
XO_RES_HEIGHT == 64
FONTSET_SIZE == 80
LARGE_FONT_BASE_ADDR == 80
MAX_SCREEN_SIZE == HI_RES_HEIGHT * HI_RES_WIDTH
XO_SCREEN_SIZE == XO_RES_HEIGHT * XO_RES_WIDTH

FONTSET ==
  << 240, 144, 144, 144, 240,    32,  96,  32,  32, 112,
     240,  16, 240, 128, 240,   240,  16, 240,  16, 240,
     144, 144, 240,  16,  16,   240, 128, 240,  16, 240,
     240, 128, 240, 144, 240,   240,  16,  32,  64,  64,
     240, 144, 240, 144, 240,   240, 144, 240,  16, 240,
     240, 144, 240, 144, 144,   224, 144, 224, 144, 224,
     240, 128, 128, 128, 240,   224, 144, 144, 144, 224,
     240, 128, 240, 128, 240,   240, 128, 240, 128, 128 >>

(***************************************************************************)
(* Fixed-width integer helpers.                                            *)
(***************************************************************************)
U8 == 256
U16 == 65536

\* bit k (0 = least significant) of v
Bit(v, k) == (v \div (2 ^ k)) % 2

AndBit(p, q) == p = 1 /\ q = 1
OrBit(p, q) == p = 1 \/ q = 1
XorBit(p, q) == p # q

\* bits k..0 of a combined with those of b by the operator named by which
RECURSIVE BitFold(_, _, _, _)
BitFold(which, a, b, k) ==
  LET p == Bit(a, k)
      q == Bit(b, k)
      on == CASE which = "and" -> AndBit(p, q)
              [] which = "or" -> OrBit(p, q)
              [] which = "xor" -> XorBit(p, q)
  IN IF k < 0 THEN 0
     ELSE (IF on THEN 2 ^ k ELSE 0) + BitFold(which, a, b, k - 1)

BitAnd(a, b) == BitFold("and", a, b, 15)
BitOr(a, b) == BitFold("or", a, b, 15)
BitXor(a, b) == BitFold("xor", a, b, 15)

\* the four 4-bit fields of an opcode and its operands
D1(op) == op \div 4096
D2(op) == (op \div 256) % 16
D3(op) == (op \div 16) % 16
D4(op) == op % 16
NNN(op) == op % 4096
NN(op) == op % 256

(***************************************************************************)
(* CpuState                                                                *)
(***************************************************************************)
\* the byte reset() leaves at address a: memory.fill(0), then the font
ResetByte(a) == IF a < FONTSET_SIZE THEN FONTSET[a + 1] ELSE 0

\* memory as reset() leaves it: no cell differs from ResetByte
ResetMemory == << >>

\* memory[a] of a memory m, for a in 0 .. RAM_SIZE - 1
Read(m, a) == IF a \in DOMAIN m THEN m[a] ELSE ResetByte(a)

\* m with vals[a] written to every cell a of DOMAIN vals
MemUpdate(m, vals) ==
  LET new(a) == IF a \in DOMAIN vals THEN vals[a] ELSE Read(m, a)
  IN [a \in {b \in DOMAIN m \cup DOMAIN vals : new(b) # ResetByte(b)} |-> new(a)]

\* CpuState::new followed by CpuState::reset, as Chip8VM::new leaves it
CpuReset ==
  [ pc |-> START_ADDR,
    memory |-> ResetMemory,
    screen |-> {},
    current_width |-> SCREEN_WIDTH,
    current_height |-> SCREEN_HEIGHT,
    registers |-> [r \in 0 .. REGISTER_COUNT - 1 |-> 0],
    i_register |-> 0,
    sp |-> 0,
    stack |-> [s \in 0 .. STACK_SIZE - 1 |-> 0],
    keys |-> [k \in 0 .. KEYS_COUNT - 1 |-> FALSE],
    delay_timer |-> 0,
    sound_timer |-> 0,
    rpl_flags |-> [f \in 0 .. FLAG_COUNT - 1 |-> 0],
    plane_1 |-> {},
    plane_2 |-> {},
    plane_mask |-> 1 ]

\* seeded fault: a reset that leaves the flag bank as it found it
ResetKeepsFlags(c) == [CpuReset EXCEPT !.rpl_flags = c.rpl_flags]

\* CpuState::reset
Reset(c) ==
  [c EXCEPT !.pc = START_ADDR,
            !.memory = ResetMemory,
            !.screen = {},
            !.current_width = SCREEN_WIDTH,
            !.current_height = SCREEN_HEIGHT,
            !.registers = [r \in 0 .. REGISTER_COUNT - 1 |-> 0],
            !.i_register = 0,
            !.sp = 0,
            !.stack = [s \in 0 .. STACK_SIZE - 1 |-> 0],
            !.keys = [k \in 0 .. KEYS_COUNT - 1 |-> FALSE],
            !.delay_timer = 0,
            !.sound_timer = 0,
            !.rpl_flags = [f \in 0 .. FLAG_COUNT - 1 |-> 0],
            !.plane_1 = {},
            !.plane_2 = {},
            !.plane_mask = 1]

\* memory[a] of a machine state
Mem(c, a) == Read(c.memory, a)

\* a call's outcome: the state it leaves and what it returns
Out(c, r) == [cpu |-> c, res |-> r]

OK == "ok"
PANIC == "panic"


(***************************************************************************)
(* Chip8VM: load, fetch, stack                                             *)
(***************************************************************************)
\* seeded fault: a load that also refuses an image ending at the last cell
LoadStrict(c, data) ==
  LET start == START_ADDR
      end == start + Len(data)
  IN IF end >= RAM_SIZE
       THEN Out(c, "ROM size exceeds available memory.")
       ELSE LET byte(a) == data[a - start + 1]
            IN Out([c EXCEPT !.memory = MemUpdate(@, [a \in start .. end - 1 |-> byte(a)])], OK)

\* Chip8VM::load: the size check, then the copy to START_ADDR..
Load(c, data) ==
  LET start == START_ADDR
      end == start + Len(data)
  IN IF end > RAM_SIZE
       THEN Out(c, "ROM size exceeds available memory.")
       ELSE LET byte(a) == data[a - start + 1]
            IN Out([c EXCEPT !.memory = MemUpdate(@, [a \in start .. end - 1 |-> byte(a)])], OK)

\* Chip8VM::fetch reads memory[pc] and memory[pc + 1]; an index of RAM_SIZE or
\* more panics
FetchPanics(c) == c.pc >= RAM_SIZE \/ c.pc + 1 >= RAM_SIZE

\* the opcode fetch assembles: (hi << 8) | lo
FetchOp(c) == Mem(c, c.pc) * 256 + Mem(c, c.pc + 1)

\* the pc after fetch (pc <= RAM_SIZE - 2 here, so the u16 cannot overflow)
FetchAdvance(c) == [c EXCEPT !.pc = c.pc + 2]

\* seeded fault: push_to_stack refusing one entry early
PushToStackEarly(c, val) ==
  IF c.sp >= STACK_SIZE - 1
    THEN Out(c, "Stack overflow")
    ELSE Out([c EXCEPT !.stack[c.sp] = val, !.sp = c.sp + 1], OK)

PushToStack(c, val) ==
  IF c.sp >= STACK_SIZE
    THEN Out(c, "Stack overflow")
    ELSE Out([c EXCEPT !.stack[c.sp] = val, !.sp = c.sp + 1], OK)

\* the popped value is stack[sp - 1]
PopFromStack(c) ==
  IF c.sp = 0
    THEN [cpu |-> c, res |-> "Stack underflow", val |-> 0]
    ELSE [cpu |-> [c EXCEPT !.sp = c.sp - 1], res |-> OK, val |-> c.stack[c.sp - 1]]

(***************************************************************************)
(* Base opcode table (Chip8VM::execute after the extension loop)           *)
(***************************************************************************)
\* seeded fault: a skip that ignores its condition
SkipAlways(c, cond) == [c EXCEPT !.pc = c.pc + 2]

Skip(c, cond) == IF cond THEN [c EXCEPT !.pc = c.pc + 2] ELSE c

\* seeded fault: a clear that addresses the cells x + y * current_width
ClsPacked(c) ==
  [c EXCEPT !.screen = {idx \in c.screen : idx >= c.current_width * c.current_height}]

\* CLS: every cell of the active viewport, addressed x + y * HI_RES_WIDTH
Cls(c) ==
  [c EXCEPT !.screen =
     {idx \in c.screen : ~(idx % HI_RES_WIDTH < c.current_width
                           /\ idx \div HI_RES_WIDTH < c.current_height)}]

Ret(c) ==
  LET p == PopFromStack(c)
  IN IF p.res = OK THEN Out([p.cpu EXCEPT !.pc = p.val], OK) ELSE Out(p.cpu, p.res)

\* seeded fault: a call that pushes the address of the call itself
CallPushesSelf(c, op) ==
  LET p == PushToStack(c, c.pc - 2)
  IN IF p.res = OK THEN Out([p.cpu EXCEPT !.pc = NNN(op)], OK) ELSE p

Call(c, op) ==
  LET p == PushToStack(c, c.pc)
  IN IF p.res = OK THEN Out([p.cpu EXCEPT !.pc = NNN(op)], OK) ELSE p

\* seeded fault: an add that leaves VF alone
AluAddNoFlag(c, x, y) ==
  [c EXCEPT !.registers[x] = (c.registers[x] + c.registers[y]) % U8]

\* 8XY4: overflowing_add, VX first, then VF
AluAdd(c, x, y) ==
  LET sum == c.registers[x] + c.registers[y]
  IN [c EXCEPT !.registers =
        [[c.registers EXCEPT ![x] = sum % U8] EXCEPT ![15] = IF sum >= U8 THEN 1 ELSE 0]]

\* seeded fault: a subtraction whose flag reports a borrow as 1
AluSubBorrowFlag(c, x, a, b) ==
  LET diff == c.registers[a] - c.registers[b]
  IN [c EXCEPT !.registers =
        [[c.registers EXCEPT ![x] = diff % U8] EXCEPT ![15] = IF diff < 0 THEN 1 ELSE 0]]

\* 8XY5 (a = x, b = y) and 8XY7 (a = y, b = x): VX = Va - Vb wrapping, VF = 0 on borrow
AluSub(c, x, a, b) ==
  LET diff == c.registers[a] - c.registers[b]
  IN [c EXCEPT !.registers =
        [[c.registers EXCEPT ![x] = diff % U8] EXCEPT ![15] = IF diff < 0 THEN 0 ELSE 1]]

\* 8XY6: VF = VX & 1 first, then VX >>= 1 on the updated register file
AluShr(c, x) ==
  LET r1 == [c.registers EXCEPT ![15] = c.registers[x] % 2]
  IN [c EXCEPT !.registers = [r1 EXCEPT ![x] = r1[x] \div 2]]

\* 8XYE: VF = (VX >> 7) & 1 first, then VX <<= 1 on the updated register file
AluShl(c, x) ==
  LET r1 == [c.registers EXCEPT ![15] = (c.registers[x] \div 128) % 2]
  IN [c EXCEPT !.registers = [r1 EXCEPT ![x] = (r1[x] * 2) % U8]]

TogglePixel(s, idx) == IF idx \in s THEN s \ {idx} ELSE s \cup {idx}

\* one row of DXYN: bits 7..0 of the sprite byte, left to right
RECURSIVE DrawBits(_, _, _, _, _, _)
DrawBits(c, pixels, x_line, x_coord, y_coord, y_line) ==
  IF x_line >= 8 THEN c
  ELSE IF Bit(pixels, 7 - x_line) = 0
    THEN DrawBits(c, pixels, x_line + 1, x_coord, y_coord, y_line)
  ELSE LET px == (x_coord + x_line) % c.current_width
           py == (y_coord + y_line) % c.current_height
           idx == px + py * HI_RES_WIDTH
           c1 == [c EXCEPT !.registers[15] = IF idx \in c.screen THEN 1 ELSE @,
                           !.screen = TogglePixel(@, idx)]
       IN DrawBits(c1, pixels, x_line + 1, x_coord, y_coord, y_line)

\* the rows of DXYN from y_line on; a row whose address is outside memory bails
RECURSIVE DrawRows(_, _, _, _, _)
DrawRows(c, n, y_line, x_coord, y_coord) ==
  IF y_line >= n THEN Out(c, OK)
  ELSE LET addr == c.i_register + y_line
       IN IF addr >= RAM_SIZE
            THEN Out(c, "Memory access out of bounds for sprite draw")
            ELSE DrawRows(DrawBits(c, Mem(c, addr), 0, x_coord, y_coord, y_line),
                          n, y_line + 1, x_coord, y_coord)

\* DXYN: VF = 0 first, the coordinates are read after that
DrawSprite(c, x, y, n) ==
  LET c0 == [c EXCEPT !.registers[15] = 0]
  IN DrawRows(c0, n, 0, c0.registers[x], c0.registers[y])

\* seeded fault: a key skip that tests the opposite key state
KeySkipInverted(c, x, wanted) ==
  LET vx == c.registers[x]
  IN IF vx >= KEYS_COUNT
       THEN Out(c, "Invalid key index in register VX")
       ELSE Out(Skip(c, c.keys[vx] # wanted), OK)

KeySkip(c, x, wanted) ==
  LET vx == c.registers[x]
  IN IF vx >= KEYS_COUNT
       THEN Out(c, "Invalid key index in register VX")
       ELSE Out(Skip(c, c.keys[vx] = wanted), OK)

\* seeded fault: a wait-for-key that takes the last pressed key of its scan
WaitKeyHighest(c, x) ==
  LET pressed == {k \in 0 .. KEYS_COUNT - 1 : c.keys[k]}
  IN IF pressed # {}
       THEN [c EXCEPT !.registers[x] = CHOOSE k \in pressed : \A j \in pressed : k >= j]
       ELSE [c EXCEPT !.pc = c.pc - 2]

\* FX0A: the lowest pressed key goes to VX, or the pc steps back onto the opcode
WaitKey(c, x) ==
  LET pressed == {k \in 0 .. KEYS_COUNT - 1 : c.keys[k]}
  IN IF pressed # {}
       THEN [c EXCEPT !.registers[x] = CHOOSE k \in pressed : \A j \in pressed : k <= j]
       ELSE [c EXCEPT !.pc = c.pc - 2]

\* seeded fault: a BCD whose middle digit is not reduced modulo 10
BcdTens(c, x) ==
  LET vx == c.registers[x]
      i == c.i_register
  IN IF i + 2 >= RAM_SIZE
       THEN Out(c, PANIC)
       ELSE LET digit(a) == CASE a = i -> vx \div 100
                                  [] a = i + 1 -> vx \div 10
                                  [] OTHER -> vx % 10
            IN Out([c EXCEPT !.memory = MemUpdate(@, [a \in i .. i + 2 |-> digit(a)])], OK)

\* FX33: three unchecked writes at I, I + 1, I + 2; the first index outside
\* memory panics
Bcd(c, x) ==
  LET vx == c.registers[x]
      i == c.i_register
  IN IF i + 2 >= RAM_SIZE
       THEN Out(c, PANIC)
       ELSE LET digit(a) == CASE a = i -> vx \div 100
                                  [] a = i + 1 -> (vx \div 10) % 10
                                  [] OTHER -> vx % 10
            IN Out([c EXCEPT !.memory = MemUpdate(@, [a \in i .. i + 2 |-> digit(a)])], OK)

\* seeded fault: a store over 0..x instead of 0..=x
StoreRegsShort(c, x) ==
  LET i == c.i_register
  IN IF i + x >= RAM_SIZE
       THEN Out(c, "Memory store out of bounds")
       ELSE LET reg(a) == c.registers[a - i]
            IN Out([c EXCEPT !.memory = MemUpdate(@, [a \in i .. i + x - 1 |-> reg(a)])], OK)

\* FX55
StoreRegs(c, x) ==
  LET i == c.i_register
  IN IF i + x >= RAM_SIZE
       THEN Out(c, "Memory store out of bounds")
       ELSE LET reg(a) == c.registers[a - i]
            IN Out([c EXCEPT !.memory = MemUpdate(@, [a \in i .. i + x |-> reg(a)])], OK)

\* seeded fault: a load whose check refuses the last cell of memory
LoadRegsEarly(c, x) ==
  LET i == c.i_register
  IN IF i + x + 1 >= RAM_SIZE
       THEN Out(c, "Memory load out of bounds")
       ELSE Out([c EXCEPT !.registers =
                   [r \in 0 .. REGISTER_COUNT - 1 |->
                      IF r <= x THEN Mem(c, i + r) ELSE c.registers[r]]],
                OK)

\* FX65
LoadRegs(c, x) ==
  LET i == c.i_register
  IN IF i + x >= RAM_SIZE
       THEN Out(c, "Memory load out of bounds")
       ELSE Out([c EXCEPT !.registers =
                   [r \in 0 .. REGISTER_COUNT - 1 |->
                      IF r <= x THEN Mem(c, i + r) ELSE c.registers[r]]],
                OK)

\* seeded fault: an unknown opcode treated as a no-op
UnimplementedIgnored(c, op) == Out(c, OK)

Unimplemented(c, op) == Out(c, "Unimplemented or unknown opcode")

\* the match on (d1, d2, d3, d4); rng is the byte rand::random() returns
BaseExecute(c, op, rng) ==
  LET d1 == D1(op)
      d2 == D2(op)
      d3 == D3(op)
      d4 == D4(op)
      x == d2
      y == d3
      vx == c.registers[x]
      vy == c.registers[y]
  IN CASE d1 = 0 /\ d2 = 0 /\ d3 = 0 /\ d4 = 0 -> Out(c, OK)
       [] d1 = 0 /\ d2 = 0 /\ d3 = 14 /\ d4 = 0 -> Out(Cls(c), OK)
       [] d1 = 0 /\ d2 = 0 /\ d3 = 14 /\ d4 = 14 -> Ret(c)
       [] d1 = 1 -> Out([c EXCEPT !.pc = NNN(op)], OK)
       [] d1 = 2 -> Call(c, op)
       [] d1 = 3 -> Out(Skip(c, vx = NN(op)), OK)
       [] d1 = 4 -> Out(Skip(c, vx # NN(op)), OK)
       [] d1 = 5 /\ d4 = 0 -> Out(Skip(c, vx = vy), OK)
       [] d1 = 6 -> Out([c EXCEPT !.registers[x] = NN(op)], OK)
       [] d1 = 7 -> Out([c EXCEPT !.registers[x] = (vx + NN(op)) % U8], OK)
       [] d1 = 8 /\ d4 = 0 -> Out([c EXCEPT !.registers[x] = vy], OK)
       [] d1 = 8 /\ d4 = 1 -> Out([c EXCEPT !.registers[x] = BitOr(vx, vy)], OK)
       [] d1 = 8 /\ d4 = 2 -> Out([c EXCEPT !.registers[x] = BitAnd(vx, vy)], OK)
       [] d1 = 8 /\ d4 = 3 -> Out([c EXCEPT !.registers[x] = BitXor(vx, vy)], OK)
       [] d1 = 8 /\ d4 = 4 -> Out(AluAdd(c, x, y), OK)
       [] d1 = 8 /\ d4 = 5 -> Out(AluSub(c, x, x, y), OK)
       [] d1 = 8 /\ d4 = 6 -> Out(AluShr(c, x), OK)
       [] d1 = 8 /\ d4 = 7 -> Out(AluSub(c, x, y, x), OK)
       [] d1 = 8 /\ d4 = 14 -> Out(AluShl(c, x), OK)
       [] d1 = 9 /\ d4 = 0 -> Out(Skip(c, vx # vy), OK)
       [] d1 = 10 -> Out([c EXCEPT !.i_register = NNN(op)], OK)
       [] d1 = 11 -> Out([c EXCEPT !.pc = c.registers[0] + NNN(op)], OK)
       [] d1 = 12 -> Out([c EXCEPT !.registers[x] = BitAnd(rng, NN(op))], OK)
       [] d1 = 13 -> DrawSprite(c, x, y, d4)
       [] d1 = 14 /\ d3 = 9 /\ d4 = 14 -> KeySkip(c, x, TRUE)
       [] d1 = 14 /\ d3 = 10 /\ d4 = 1 -> KeySkip(c, x, FALSE)
       [] d1 = 15 /\ d3 = 0 /\ d4 = 7 -> Out([c EXCEPT !.registers[x] = c.delay_timer], OK)
       [] d1 = 15 /\ d3 = 0 /\ d4 = 10 -> Out(WaitKey(c, x), OK)
       [] d1 = 15 /\ d3 = 1 /\ d4 = 5 -> Out([c EXCEPT !.delay_timer = vx], OK)
       [] d1 = 15 /\ d3 = 1 /\ d4 = 8 -> Out([c EXCEPT !.sound_timer = vx], OK)
       [] d1 = 15 /\ d3 = 1 /\ d4 = 14 ->
            Out([c EXCEPT !.i_register = (c.i_register + vx) % U16], OK)
       [] d1 = 15 /\ d3 = 2 /\ d4 = 9 -> Out([c EXCEPT !.i_register = vx * 5], OK)
       [] d1 = 15 /\ d3 = 3 /\ d4 = 3 -> Bcd(c, x)
       [] d1 = 15 /\ d3 = 5 /\ d4 = 5 -> StoreRegs(c, x)
       [] d1 = 15 /\ d3 = 6 /\ d4 = 5 -> LoadRegs(c, x)
       [] OTHER -> Unimplemented(c, op)

(***************************************************************************)
(* Extension handlers.  handle_instruction returns Ok(true) ("consumed"),  *)
(* Ok(false) ("declined"), Err(msg) (the message) or panics.               *)
(***************************************************************************)
CONSUMED == "consumed"
DECLINED == "declined"

\* XOR one cell of a plane; VF = 1 when the cell was set before
TogglePlane(c, which, idx) ==
  IF which = 1
    THEN [c EXCEPT !.registers[15] = IF idx \in c.plane_1 THEN 1 ELSE @,
                   !.plane_1 = TogglePixel(@, idx)]
    ELSE [c EXCEPT !.registers[15] = IF idx \in c.plane_2 THEN 1 ELSE @,
                   !.plane_2 = TogglePixel(@, idx)]

\* bit col (0 = leftmost) of the 16-pixel row hi:lo
RowBit(hi, lo, col) == IF col < 8 THEN Bit(hi, 7 - col) ELSE Bit(lo, 15 - col)

(******************************* Super-CHIP ********************************)
\* one row of SuperChip8::draw_16x16_sprite; py is computed from col
RECURSIVE SchipDrawBits(_, _, _, _, _, _)
SchipDrawBits(c, hi, lo, col, x_coord, y_coord) ==
  IF col >= 16 THEN c
  ELSE IF RowBit(hi, lo, col) = 0
    THEN SchipDrawBits(c, hi, lo, col + 1, x_coord, y_coord)
  ELSE LET px == (x_coord + col) % c.current_width
           py == (y_coord + col) % c.current_height
           idx == px + py * HI_RES_WIDTH
           c1 == [c EXCEPT !.registers[15] = IF idx \in c.screen THEN 1 ELSE @,
                           !.screen = TogglePixel(@, idx)]
       IN SchipDrawBits(c1, hi, lo, col + 1, x_coord, y_coord)

RECURSIVE SchipDrawRows(_, _, _, _)
SchipDrawRows(c, row, x_coord, y_coord) ==
  IF row >= 16 THEN Out(c, CONSUMED)
  ELSE LET addr == c.i_register + row * 2
       IN IF addr + 1 >= RAM_SIZE
            THEN Out(c, "Memory access out of bounds for 16x16 sprite draw")
            ELSE SchipDrawRows(
                   SchipDrawBits(c, Mem(c, addr), Mem(c, addr + 1), 0, x_coord, y_coord),
                   row + 1, x_coord, y_coord)

SchipDraw16(c, x, y) ==
  LET c0 == [c EXCEPT !.registers[15] = 0]
  IN SchipDrawRows(c0, 0, c0.registers[x], c0.registers[y])

\* 00CN: new_screen has SCREEN_WIDTH * SCREEN_HEIGHT cells; copy_from_slice
\* into ctx.screen panics when the two lengths differ
SchipScrollDown(c, n) ==
  IF n >= SCREEN_HEIGHT THEN Out([c EXCEPT !.screen = {}], CONSUMED)
  ELSE IF MAX_SCREEN_SIZE # SCREEN_WIDTH * SCREEN_HEIGHT THEN Out(c, PANIC)
  ELSE Out([c EXCEPT !.screen =
              {idx + n * SCREEN_WIDTH :
                 idx \in {i \in c.screen : i < (SCREEN_HEIGHT - n) * SCREEN_WIDTH}}],
           CONSUMED)

\* 00FB: fills a local new_screen that is never copied back
SchipScrollRight(c) == Out(c, CONSUMED)

\* 00FC: dst = dst_row_start + col - SHIFT at row 0, col 0 is 0 - 4 in usize:
\* an overflow panic, or after wrapping an index panic
SchipScrollLeft(c) == Out(c, PANIC)

\* seeded fault: a save that stops one register short of x
SchipSaveFlagsShort(c, x) ==
  IF x >= FLAG_COUNT THEN Out(c, PANIC)
  ELSE Out([c EXCEPT !.rpl_flags =
              [f \in 0 .. FLAG_COUNT - 1 |-> IF f < x THEN c.registers[f] ELSE c.rpl_flags[f]]],
           CONSUMED)

\* FX75: rpl_flags[i] = registers[i] for i in 0..=x; index FLAG_COUNT panics
SchipSaveFlags(c, x) ==
  IF x >= FLAG_COUNT THEN Out(c, PANIC)
  ELSE Out([c EXCEPT !.rpl_flags =
              [f \in 0 .. FLAG_COUNT - 1 |-> IF f <= x THEN c.registers[f] ELSE c.rpl_flags[f]]],
           CONSUMED)

\* FX85
SchipLoadFlags(c, x) ==
  IF x >= FLAG_COUNT THEN Out(c, PANIC)
  ELSE Out([c EXCEPT !.registers =
              [r \in 0 .. REGISTER_COUNT - 1 |-> IF r <= x THEN c.rpl_flags[r] ELSE c.registers[r]]],
           CONSUMED)

\* seeded fault: a resolution switch that also clears the display buffer
SchipResolutionClears(c, w, h) ==
  Out([c EXCEPT !.current_width = w, !.current_height = h, !.screen = {}], CONSUMED)

\* 00FE / 00FF: the viewport becomes w x h
SchipResolution(c, w, h) ==
  Out([c EXCEPT !.current_width = w, !.current_height = h], CONSUMED)

SchipHandle(c, op) ==
  LET d1 == D1(op)
      x == D2(op)
      y == D3(op)
      n == D4(op)
  IN CASE d1 = 0 /\ x = 0 /\ y = 15 /\ n = 13 ->
            Out(c, "S-CHIP Exit instruction (00FD) encountered.")
       [] d1 = 0 /\ x = 0 /\ y = 15 /\ n = 14 -> SchipResolution(c, SCREEN_WIDTH, SCREEN_HEIGHT)
       [] d1 = 0 /\ x = 0 /\ y = 15 /\ n = 15 -> SchipResolution(c, HI_RES_WIDTH, HI_RES_HEIGHT)
       [] d1 = 13 /\ n = 0 -> SchipDraw16(c, x, y)
       [] d1 = 0 /\ x = 0 /\ y = 12 -> SchipScrollDown(c, n)
       [] d1 = 0 /\ x = 0 /\ y = 15 /\ n = 11 -> SchipScrollRight(c)
       [] d1 = 0 /\ x = 0 /\ y = 15 /\ n = 12 -> SchipScrollLeft(c)
       [] d1 = 15 /\ y = 3 /\ n = 0 ->
            Out([c EXCEPT !.i_register = LARGE_FONT_BASE_ADDR + c.registers[x] * 10], CONSUMED)
       [] d1 = 15 /\ y = 7 /\ n = 5 -> SchipSaveFlags(c, x)
       [] d1 = 15 /\ y = 8 /\ n = 5 -> SchipLoadFlags(c, x)
       [] OTHER -> Out(c, DECLINED)

(******************************** XO-Chip **********************************)
Selected(c, which) == Bit(c.plane_mask, which - 1) = 1

\* p1 and p2 become the planes the mask selects
OnSelected(c, p1, p2) ==
  [c EXCEPT !.plane_1 = IF Selected(c, 1) THEN p1 ELSE @,
            !.plane_2 = IF Selected(c, 2) THEN p2 ELSE @]

PlaneFill(p) == {}

\* seeded fault: a resolution switch that clears both planes whatever the mask
XoSetResolutionBoth(c, w, h) ==
  [c EXCEPT !.current_width = w, !.current_height = h, !.plane_1 = {}, !.plane_2 = {}]

\* set_low_resolution / set_high_resolution
XoSetResolution(c, w, h) ==
  OnSelected([c EXCEPT !.current_width = w, !.current_height = h],
             PlaneFill(c.plane_1), PlaneFill(c.plane_2))

\* scroll_down: cells are addressed col + row * current_width
XoScrollDown(c, n) ==
  LET w == c.current_width
      h == c.current_height
      Moved(p) == {i \in p : i >= h * w} \cup {i + n * w : i \in {j \in p : j < (h - n) * w}}
  IN IF n >= h
       THEN [OnSelected(c, PlaneFill(c.plane_1), PlaneFill(c.plane_2)) EXCEPT !.screen = {}]
       ELSE OnSelected(c, Moved(c.plane_1), Moved(c.plane_2))

\* scroll_right by SHIFT = 4, same addressing
XoScrollRight(c) ==
  LET w == c.current_width
      h == c.current_height
      Moved(p) == {i \in p : i >= h * w}
                  \cup {i + 4 : i \in {j \in p : j < h * w /\ j % w < w - 4}}
  IN OnSelected(c, Moved(c.plane_1), Moved(c.plane_2))

\* scroll_left by SHIFT = 4, same addressing
XoScrollLeft(c) ==
  LET w == c.current_width
      h == c.current_height
      Moved(p) == {i \in p : i >= h * w}
                  \cup {i - 4 : i \in {j \in p : j < h * w /\ j % w >= 4}}
  IN OnSelected(c, Moved(c.plane_1), Moved(c.plane_2))

\* seeded fault: a sprite bit drawn on both planes whatever the mask
XoPlotBoth(c, idx) == TogglePlane(TogglePlane(c, 1, idx), 2, idx)

\* one set sprite bit of XoChip::draw_sprite: plane 1, then plane 2
XoPlot(c, idx) ==
  LET c1 == IF Selected(c, 1) THEN TogglePlane(c, 1, idx) ELSE c
  IN IF Selected(c, 2) THEN TogglePlane(c1, 2, idx) ELSE c1

RECURSIVE XoDrawBits(_, _, _, _, _, _)
XoDrawBits(c, pixels, col, x_coord, y_coord, row) ==
  IF col >= 8 THEN c
  ELSE IF Bit(pixels, 7 - col) = 0
    THEN XoDrawBits(c, pixels, col + 1, x_coord, y_coord, row)
  ELSE LET px == (x_coord + col) % c.current_width
           py == (y_coord + row) % c.current_height
           idx == px + py * XO_RES_WIDTH
       IN XoDrawBits(IF idx >= XO_SCREEN_SIZE THEN c ELSE XoPlot(c, idx),
                     pixels, col + 1, x_coord, y_coord, row)

RECURSIVE XoDrawRows(_, _, _, _, _)
XoDrawRows(c, k, row, x_coord, y_coord) ==
  IF row >= k THEN Out(c, CONSUMED)
  ELSE LET addr == c.i_register + row
       IN IF addr >= RAM_SIZE
            THEN Out(c, "Memory access out of bounds for sprite draw")
            ELSE XoDrawRows(XoDrawBits(c, Mem(c, addr), 0, x_coord, y_coord, row),
                            k, row + 1, x_coord, y_coord)

XoDrawSprite(c, x, y, k) ==
  LET c0 == [c EXCEPT !.registers[15] = 0]
  IN XoDrawRows(c0, k, 0, c0.registers[x], c0.registers[y])

\* one row of XoChip::draw_16x16_sprite.  Plane 2 is looked at only where the
\* first bitmap has a set bit; with mask 3 its bit comes from the second bitmap
\* at I + 32 + row * 2, whose address check can bail in the middle of the row.
RECURSIVE XoDraw16Bits(_, _, _, _, _, _, _)
XoDraw16Bits(c, hi, lo, col, row, x_coord, y_coord) ==
  IF col >= 16 THEN Out(c, OK)
  ELSE IF RowBit(hi, lo, col) = 0
    THEN XoDraw16Bits(c, hi, lo, col + 1, row, x_coord, y_coord)
  ELSE LET px == (x_coord + col) % c.current_width
           py == (y_coord + row) % c.current_height
           idx == px + py * XO_RES_WIDTH
           c1 == IF Selected(c, 1) THEN TogglePlane(c, 1, idx) ELSE c
           plane2_addr == c.i_register + 32 + row * 2
           both == c.plane_mask = 3
           bit2 == IF both
                     THEN RowBit(Mem(c, plane2_addr), Mem(c, plane2_addr + 1), col)
                     ELSE 1
       IN IF idx >= XO_SCREEN_SIZE
            THEN XoDraw16Bits(c, hi, lo, col + 1, row, x_coord, y_coord)
          ELSE IF ~Selected(c, 2)
            THEN XoDraw16Bits(c1, hi, lo, col + 1, row, x_coord, y_coord)
          ELSE IF both /\ plane2_addr + 1 >= RAM_SIZE
            THEN Out(c1, "Memory access out of bounds for 16x16 sprite plane 2")
          ELSE XoDraw16Bits(
                 IF bit2 = 1
                   THEN TogglePlane(c1, 2, idx)
                   ELSE c1,
                 hi, lo, col + 1, row, x_coord, y_coord)

RECURSIVE XoDraw16Rows(_, _, _, _)
XoDraw16Rows(c, row, x_coord, y_coord) ==
  IF row >= 16 THEN Out(c, CONSUMED)
  ELSE LET base_addr == c.i_register + row * 2
       IN IF base_addr + 1 >= RAM_SIZE
            THEN Out(c, "Memory access out of bounds for 16x16 sprite draw")
            ELSE LET r == XoDraw16Bits(c, Mem(c, base_addr), Mem(c, base_addr + 1),
                                       0, row, x_coord, y_coord)
                 IN IF r.res = OK
                      THEN XoDraw16Rows(r.cpu, row + 1, x_coord, y_coord)
                      ELSE r

XoDraw16(c, x, y) ==
  LET c0 == [c EXCEPT !.registers[15] = 0]
  IN XoDraw16Rows(c0, 0, c0.registers[x], c0.registers[y])

\* play_audio: the bounds check; the converted samples are dropped
XoPlayAudio(c, x) ==
  IF c.i_register + c.registers[x] > RAM_SIZE
    THEN Out(c, "Audio buffer out of bounds")
    ELSE Out(c, CONSUMED)

\* seeded fault: a save that leaves I where it was
XoSaveRangeKeepsI(c, x, y) ==
  LET i == c.i_register
  IN IF x > y THEN Out(c, DECLINED)
     ELSE IF i + (y - x) >= RAM_SIZE THEN Out(c, PANIC)
     ELSE Out([c EXCEPT !.memory =
                 MemUpdate(@, [a \in i .. i + (y - x) |-> c.registers[x + (a - i)]])],
              CONSUMED)

\* 5XY2: unchecked writes memory[I], memory[I + 1], ..; an index outside memory
\* panics
XoSaveRange(c, x, y) ==
  LET i == c.i_register
  IN IF x > y THEN Out(c, DECLINED)
     ELSE IF i + (y - x) >= RAM_SIZE THEN Out(c, PANIC)
     ELSE LET reg(a) == c.registers[x + (a - i)]
          IN Out([c EXCEPT !.memory = MemUpdate(@, [a \in i .. i + (y - x) |-> reg(a)]),
                           !.i_register = i + (y - x) + 1], CONSUMED)

\* 5XY3
XoLoadRange(c, x, y) ==
  LET i == c.i_register
  IN IF x > y THEN Out(c, DECLINED)
     ELSE IF i + (y - x) >= RAM_SIZE THEN Out(c, PANIC)
     ELSE Out([c EXCEPT !.registers =
                 [r \in 0 .. REGISTER_COUNT - 1 |->
                    IF r >= x /\ r <= y THEN Mem(c, i + (r - x)) ELSE c.registers[r]],
               !.i_register = i + (y - x) + 1], CONSUMED)

\* seeded fault: a plane mask taken from VX whole
XoPlaneMaskWhole(c, x) == Out([c EXCEPT !.plane_mask = c.registers[x]], CONSUMED)

\* FX01: plane_mask = registers[x] & 0x3
XoPlaneMask(c, x) == Out([c EXCEPT !.plane_mask = c.registers[x] % 4], CONSUMED)

\* seeded fault: an exit opcode the extension passes on
XoExitDeclined(c) == Out(c, DECLINED)

\* XoChip::exit_interpreter
XoExitInterpreter(c) == Out(c, "XO-Chip Exit instruction (00FD) encountered.")

XoHandle(c, op) ==
  LET d1 == D1(op)
      d2 == D2(op)
      d3 == D3(op)
      d4 == D4(op)
      x == d2
      y == d3
      nn == NN(op)
  IN CASE d1 = 0 /\ d2 = 0 /\ d3 = 15 /\ d4 = 13 -> XoExitInterpreter(c)
       [] d1 = 0 /\ d2 = 0 /\ d3 = 15 /\ d4 = 14 ->
            Out(XoSetResolution(c, SCREEN_WIDTH, SCREEN_HEIGHT), CONSUMED)
       [] d1 = 0 /\ d2 = 0 /\ d3 = 15 /\ d4 = 15 ->
            Out(XoSetResolution(c, HI_RES_WIDTH, HI_RES_HEIGHT), CONSUMED)
       [] d1 = 0 /\ d2 = 0 /\ d3 = 15 /\ d4 = 11 -> Out(XoScrollRight(c), CONSUMED)
       [] d1 = 0 /\ d2 = 0 /\ d3 = 12 ->
            Out(IF nn = 252 THEN XoScrollLeft(c) ELSE XoScrollDown(c, d4), CONSUMED)
       [] d1 = 13 /\ d4 = 0 -> XoDraw16(c, x, y)
       [] d1 = 13 /\ d4 # 0 -> XoDrawSprite(c, x, y, d4)
       [] d1 = 15 /\ d3 = 0 /\ d4 = 1 -> XoPlaneMask(c, x)
       [] d1 = 15 /\ d3 = 3 /\ d4 = 0 ->
            Out([c EXCEPT !.i_register = LARGE_FONT_BASE_ADDR + c.registers[x] * 10], CONSUMED)
       [] d1 = 15 /\ d3 = 0 /\ d4 = 15 -> XoPlayAudio(c, x)
       [] d1 = 5 /\ d4 = 2 -> XoSaveRange(c, x, y)
       [] d1 = 5 /\ d4 = 3 -> XoLoadRange(c, x, y)
       [] OTHER -> Out(c, DECLINED)

(***************************************************************************)
(* Chip8VM::execute: the extension loop, then the base table               *)
(***************************************************************************)
BASE == "base"

IsActive(ext) == ext.active

\* Extension::handle_instruction of one registered extension
Handle(ext, c, op) ==
  IF ~ext.active THEN Out(c, DECLINED)
  ELSE IF ext.name = "Super-CHIP" THEN SchipHandle(c, op)
  ELSE XoHandle(c, op)

\* what one executor did with the opcode: who is the extension's position in
\* the list (0 for the base table), out what it returned
Ran(who, name, out) == [who |-> who, name |-> name, out |-> out]

\* seeded fault: a loop that goes on to the next executor after a consumer
RECURSIVE DispatchNoStop(_, _, _, _, _, _)
DispatchNoStop(exts, k, c, op, rng, trace) ==
  IF k > Len(exts)
    THEN LET b == BaseExecute(c, op, rng)
         IN [cpu |-> b.cpu, res |-> b.res, ran |-> Append(trace, Ran(0, BASE, b.res))]
  ELSE IF ~IsActive(exts[k])
    THEN DispatchNoStop(exts, k + 1, c, op, rng, trace)
  ELSE LET h == Handle(exts[k], c, op)
           seen == Append(trace, Ran(k, exts[k].name, h.res))
       IN IF h.res \in {CONSUMED, DECLINED}
            THEN DispatchNoStop(exts, k + 1, h.cpu, op, rng, seen)
            ELSE [cpu |-> h.cpu, res |-> h.res, ran |-> seen]

\* the loop over extensions from position k on; trace lists who has seen the
\* opcode so far
RECURSIVE Dispatch(_, _, _, _, _, _)
Dispatch(exts, k, c, op, rng, trace) ==
  IF k > Len(exts)
    THEN LET b == BaseExecute(c, op, rng)
         IN [cpu |-> b.cpu, res |-> b.res, ran |-> Append(trace, Ran(0, BASE, b.res))]
  ELSE IF ~IsActive(exts[k])
    THEN Dispatch(exts, k + 1, c, op, rng, trace)
  ELSE LET h == Handle(exts[k], c, op)
           seen == Append(trace, Ran(k, exts[k].name, h.res))
       IN IF h.res = CONSUMED THEN [cpu |-> h.cpu, res |-> OK, ran |-> seen]
          ELSE IF h.res = DECLINED THEN Dispatch(exts, k + 1, h.cpu, op, rng, seen)
          ELSE [cpu |-> h.cpu, res |-> h.res, ran |-> seen]

Execute(exts, c, op, rng) == Dispatch(exts, 1, c, op, rng, <<>>)

\* seeded fault: timers decremented without the test for zero
TimersAfterWrapping(c) ==
  [c EXCEPT !.delay_timer = (@ - 1) % U8,
            !.sound_timer = (@ - 1) % U8]

\* Chip8VM::tick_timers
TimersAfter(c) ==
  [c EXCEPT !.delay_timer = IF @ > 0 THEN @ - 1 ELSE @,
            !.sound_timer = IF @ > 0 THEN @ - 1 ELSE @]

(***************************************************************************)
(* Program images                                                          *)
(***************************************************************************)
\* the big-endian bytes of a sequence of opcodes
Bytes(words) ==
  [k \in 1 .. 2 * Len(words) |->
     IF k % 2 = 1 THEN words[(k + 1) \div 2] \div 256 ELSE words[k \div 2] % 256]

\* the address of the n-th opcode (from 0) of a loaded image
At(n) == START_ADDR + 2 * n

\* opcode builders
Op(d1, d2, d3, d4) == d1 * 4096 + d2 * 256 + d3 * 16 + d4
OpXNN(d1, x, nn) == d1 * 4096 + x * 256 + nn
OpNNN(d1, nnn) == d1 * 4096 + nnn

\* a jump to itself placed as the n-th opcode: the program stays there
Halt(n) == OpNNN(1, At(n))

\* a tour of the instruction set with V0 = a and V1 = b: skips (each followed
\* by a no-op), arithmetic, memory, timers, draw, keys, the extensions'
\* opcodes, opcodes outside every table, and exit
RomTour(a, b) ==
  << OpXNN(6, 0, a), OpXNN(6, 1, b), OpXNN(6, 15, 7),
     OpXNN(3, 0, 66), 0, OpXNN(4, 0, 66), 0, Op(5, 0, 1, 0), 0, Op(9, 0, 1, 0), 0,
     OpXNN(7, 0, 5),
     Op(8, 0, 1, 1), Op(8, 0, 1, 2), Op(8, 0, 1, 3), Op(8, 0, 1, 4), Op(8, 0, 1, 5),
     Op(8, 0, 1, 6), Op(8, 0, 1, 7), Op(8, 0, 1, 14), Op(8, 2, 1, 0),
     OpNNN(10, 768), Op(15, 1, 1, 14), Op(15, 1, 3, 3), Op(15, 2, 5, 5), Op(15, 1, 6, 5),
     Op(15, 1, 2, 9), Op(15, 1, 1, 5), Op(15, 1, 1, 8), Op(15, 3, 0, 7),
     OpXNN(12, 3, 15),
     OpNNN(10, 0), Op(13, 0, 1, 5), Op(13, 0, 1, 5), Op(0, 0, 14, 0),
     OpXNN(6, 0, 1), Op(14, 0, 9, 14), 0, Op(14, 0, 10, 1), 0,
     Op(0, 0, 15, 15), Op(13, 0, 1, 2), Op(0, 0, 15, 14),
     OpXNN(6, 4, 3), Op(15, 4, 0, 1), Op(15, 0, 3, 0), Op(15, 0, 0, 15),
     OpNNN(10, 768), Op(5, 0, 1, 2), Op(5, 0, 1, 3), Op(5, 1, 0, 2),
     Op(15, 1, 7, 5), Op(15, 1, 8, 5), Op(0, 0, 15, 11), Op(13, 0, 1, 0),
     Op(5, 0, 1, 1), Op(8, 0, 1, 8), Op(9, 0, 1, 1), 65535, 1,
     Op(0, 0, 15, 13),
     Halt(61) >>

\* the tour with three operand pairs; programs that leave the loaded image (an
\* odd jump target, the last even address, an indexed jump beyond memory);
\* opcodes that stop the process under an extension; a wait for a key followed
\* by the key skips
RomsGeneral ==
  {RomTour(v[1], v[2]) : v \in {<<66, 66>>, <<16, 32>>, <<255, 1>>}}
  \cup { << OpNNN(1, 4093) >>,
         << OpNNN(1, 4094) >>,
         << OpXNN(6, 0, 255), OpNNN(11, 4095) >> }
  \cup { << Op(0, 0, 12, 1), Halt(1) >>,
         << Op(0, 0, 15, 12), Halt(1) >>,
         << Op(15, 8, 7, 5), Halt(1) >>,
         << Op(15, 8, 8, 5), Halt(1) >> }
  \cup { << Op(15, 2, 0, 10), Op(14, 2, 9, 14), 0, Op(14, 2, 10, 1), 0, Halt(5) >> }

\* 16 self-calls, then returns (the opcode at At(0) calls At(0), the one at
\* At(1) returns); nested calls (At(0) calls At(3), which calls At(5), both
\* return); a return with nothing on the stack, then a call and its return
RomsStack ==
  { << OpNNN(2, At(0)), Op(0, 0, 14, 14), Halt(2) >>,
    << OpNNN(2, At(3)), Halt(1), 0, OpNNN(2, At(5)), Op(0, 0, 14, 14), Op(0, 0, 14, 14) >>,
    << Op(0, 0, 14, 14), OpNNN(2, At(3)), Halt(2), Op(0, 0, 14, 14) >> }

\* V0..VF = 1, 17, 33, .., 241
SetAll == [k \in 1 .. 16 |-> OpXNN(6, k - 1, 16 * (k - 1) + 1)]

\* all registers set, I = nnn (plus V0 = 1 when bump), then first and second
RomIndexed(nnn, bump, first, second) ==
  SetAll \o << OpNNN(10, nnn) >>
         \o (IF bump THEN << Op(15, 0, 1, 14) >> ELSE << >>)
         \o << first, second >>
         \o << Halt(19 + (IF bump THEN 1 ELSE 0)) >>

\* store at RAM_SIZE - 16 and at RAM_SIZE - 15 with X = 15
RomBlockEdge ==
  << OpXNN(6, 15, 7), OpNNN(10, RAM_SIZE - 16), Op(15, 15, 5, 5),
     OpNNN(10, RAM_SIZE - 15), Op(15, 15, 5, 5), Op(15, 15, 6, 5), Halt(6) >>

\* the other opcodes that address memory through I, near the end of memory
IndexedOps ==
  { Op(15, 1, 3, 3), Op(13, 0, 1, 1), Op(13, 0, 1, 15), Op(13, 0, 1, 0),
    Op(5, 0, 1, 2), Op(5, 0, 3, 3), Op(5, 1, 0, 2), Op(15, 1, 0, 15) }

\* FX55 then FX65, and FX65 then FX55, for every X; the other indexed opcodes
\* near the end of memory; VX = v, I = nnn, FX33 over the font, in free memory
\* and at the last three cells
RomsMem ==
  {RomIndexed(i, FALSE, Op(15, x, 5, 5), Op(15, x, 6, 5)) :
     i \in {768, RAM_SIZE - 16, RAM_SIZE - 15, RAM_SIZE - 1}, x \in 0 .. 15}
  \cup {RomIndexed(RAM_SIZE - 1, TRUE, Op(15, x, 5, 5), Op(15, x, 6, 5)) : x \in {0, 15}}
  \cup {RomIndexed(0, FALSE, Op(15, x, 6, 5), Op(15, x, 5, 5)) : x \in {0, 7, 15}}
  \cup {RomBlockEdge}
  \cup {RomIndexed(i, FALSE, op, 0) :
          i \in {RAM_SIZE - 64, RAM_SIZE - 3, RAM_SIZE - 2, RAM_SIZE - 1}, op \in IndexedOps}
  \cup {RomIndexed(RAM_SIZE - 1, TRUE, op, 0) : op \in IndexedOps}
  \cup { << OpXNN(6, 15, 7), OpXNN(6, x, v), OpNNN(10, nnn), Op(15, x, 3, 3), Halt(4) >> :
           x \in {0, 15}, v \in {0, 9, 10, 99, 100, 128, 255}, nnn \in {0, 768, RAM_SIZE - 3} }

\* VF = 7, VX = a, VY = b, then 8XYn
RomAlu(a, b, x, y, n) ==
  << OpXNN(6, 15, 7), OpXNN(6, x, a), OpXNN(6, y, b), Op(8, x, y, n), Halt(4) >>

RomsAlu ==
  {RomAlu(a, b, xy[1], xy[2], n) :
     a \in {0, 1, 128, 255}, b \in {0, 1, 128, 255},
     xy \in {<<0, 1>>, <<1, 0>>, <<0, 0>>, <<15, 0>>, <<0, 15>>, <<15, 15>>},
     n \in {0, 1, 2, 3, 4, 5, 6, 7, 14}}

\* optional 00FF, VF = 7, VX = a, VY = b, the font sprite of "0" drawn at
\* (VX, VY), the sprite of "1" drawn over it, then two clears
RomDraw(hi, a, b, x, y, n) ==
  << (IF hi THEN Op(0, 0, 15, 15) ELSE 0), OpXNN(6, 15, 7), OpXNN(6, x, a), OpXNN(6, y, b),
     OpNNN(10, 0), Op(13, x, y, n), OpNNN(10, 5), Op(13, x, y, n),
     Op(0, 0, 14, 0), Op(0, 0, 14, 0), Halt(10) >>

\* hi-res drawing, back to lo-res, then a clear
RomClearLow ==
  << Op(0, 0, 15, 15), OpXNN(6, 0, 100), OpXNN(6, 1, 40), OpNNN(10, 0), Op(13, 0, 1, 5),
     OpXNN(6, 0, 10), OpXNN(6, 1, 10), Op(13, 0, 1, 5),
     Op(0, 0, 15, 14), Op(0, 0, 14, 0), Op(0, 0, 14, 0), Halt(11) >>

\* coordinates that wrap in either resolution, register 15 as X or as Y, 1, 5
\* and 15 rows
RomsDraw ==
  {RomDraw(hi, ab[1], ab[2], xy[1], xy[2], n) :
     hi \in BOOLEAN, ab \in {<<0, 0>>, <<60, 30>>, <<124, 62>>, <<255, 255>>},
     xy \in {<<0, 1>>, <<15, 1>>, <<0, 15>>}, n \in {1, 5, 15}}
  \cup {RomClearLow}

\* VX = v, then EX9E and EXA1, each followed by the opcode it may skip
RomKeySkip(x, v) ==
  << OpXNN(6, x, v), Op(14, x, 9, 14), 0, Op(14, x, 10, 1), 0, Halt(5) >>

\* FX0A with VX = 9 before it, then the two key skips on the key received
RomWaitKey(x) ==
  << OpXNN(6, x, 9), Op(15, x, 0, 10), Op(14, x, 9, 14), 0, Op(14, x, 10, 1), 0, Halt(6) >>

RomsKeypad ==
  {RomKeySkip(x, v) : x \in {0, 15}, v \in {0, 2, 15, 16, 255}}
  \cup {RomWaitKey(x) : x \in {0, 15}}

(***************************************************************************)
(* The machine and its driver                                              *)
(***************************************************************************)
SCHIP(on) == [name |-> "Super-CHIP", active |-> on]
XO(on) == [name |-> "XO-Chip", active |-> on]

\* the extension lists a VM is constructed with
ExtLists ==
  { <<>>, <<SCHIP(TRUE)>>, <<XO(TRUE)>>, <<SCHIP(TRUE), XO(TRUE)>>, <<XO(TRUE), SCHIP(TRUE)>>,
    <<SCHIP(FALSE), XO(TRUE)>>, <<SCHIP(TRUE), XO(FALSE)>>, <<SCHIP(FALSE)>> }

\* bound on the number of keypress calls in a run of the keypad programs
MaxPresses == 2

\* bound on the number of keypress and tick_timers calls in a run
MaxCalls == 1

\* timer updates in a run of the sound programs
MaxTimerCalls == 4

VARIABLES
  cpu,          \* Chip8VM.cpu
  extensions,   \* Chip8VM.extensions
  buffer,       \* the program image the driver read
  loaded,       \* load has succeeded
  result,       \* what the last call returned
  ran,          \* who saw the opcode in the last tick, in order
  last,         \* the last call (see Called)
  calls,        \* keypress and tick_timers calls so far
  beeps,        \* beep.play() calls of the driver so far
  driver        \* run's debugger.breakpoints and paused, and where run is (see DriverNew)

vars == <<cpu, extensions, buffer, loaded, result, ran, last, calls, beeps, driver>>

\* main.rs run: Debugger::new() has no breakpoint, paused starts as cli.debug,
\* and run is at the top of the main loop ("loop"), blocked in read_line of
\* run_debugger_loop ("prompt") or has returned or exited ("exit")
\* hit records that the pause in force was made by should_break
DriverNew(debug) == [breakpoints |-> {}, paused |-> debug, at |-> "loop", hit |-> FALSE]

\* a call: its kind, for a tick the address and the opcode fetched (-1 when the
\* fetch panicked), for tick_timers the pair returned, for keypress the
\* arguments passed
Called(kind, pc, op, ret, args) ==
  [kind |-> kind, pc |-> pc, op |-> op, ret |-> ret, args |-> args]

InitWith(images, lists) ==
  /\ cpu = CpuReset
  /\ extensions \in lists
  /\ buffer \in {Bytes(w) : w \in images}
  /\ loaded = FALSE
  /\ result = "none"
  /\ ran = <<>>
  /\ last = Called("new", 0, 0, <<0, 0>>, <<>>)
  /\ calls = 0
  /\ beeps = 0
  /\ driver = DriverNew(FALSE)

Init == InitWith(RomsGeneral, ExtLists)

Alive == result # PANIC

\* main.rs: chip8.load(&buffer)
LoadRom ==
  /\ Alive /\ ~loaded
  /\ LET r == Load(cpu, buffer)
     IN /\ cpu' = r.cpu
        /\ result' = r.res
        /\ loaded' = (r.res = OK)
  /\ ran' = <<>>
  /\ last' = Called("load", 0, 0, <<0, 0>>, <<>>)
  /\ UNCHANGED <<extensions, buffer, calls, beeps, driver>>

\* bytes rand::random() may return to the opcode
RngFor(op) == IF D1(op) = 12 THEN {0, 165, 255} ELSE {0}

\* Chip8VM::tick: fetch, then execute
Tick ==
  /\ Alive /\ loaded
  /\ IF FetchPanics(cpu)
       THEN /\ result' = PANIC
            /\ ran' = <<>>
            /\ last' = Called("tick", cpu.pc, -1, <<0, 0>>, <<>>)
            /\ UNCHANGED cpu
       ELSE \E rng \in RngFor(FetchOp(cpu)) :
              LET op == FetchOp(cpu)
                  d == Execute(extensions, FetchAdvance(cpu), op, rng)
              IN /\ cpu' = d.cpu
                 /\ result' = d.res
                 /\ ran' = d.ran
                 /\ last' = Called("tick", cpu.pc, op, <<0, 0>>, <<>>)
  /\ UNCHANGED <<extensions, buffer, loaded, calls, beeps, driver>>

\* main.rs timer update: Chip8VM::tick_timers, then beep.play() when the sound
\* timer returned is 1; while fewer than limit calls were made
TickTimersBy(limit) ==
  /\ Alive /\ loaded /\ calls < limit
  /\ cpu' = TimersAfter(cpu)
  /\ result' = OK
  /\ ran' = <<>>
  /\ last' = Called("tick_timers", 0, 0, <<cpu'.delay_timer, cpu'.sound_timer>>, <<>>)
  /\ calls' = calls + 1
  /\ beeps' = IF cpu'.sound_timer = 1 THEN beeps + 1 ELSE beeps
  /\ UNCHANGED <<extensions, buffer, loaded, driver>>

\* seeded fault: a keypress whose index check lets KEYS_COUNT through to the
\* neighbouring key
KeypressByOffByOne(limit, idx, pressed) ==
  /\ Alive /\ loaded /\ calls < limit
  /\ IF idx > KEYS_COUNT
       THEN /\ result' = "Invalid key index"
            /\ UNCHANGED cpu
       ELSE /\ result' = OK
            /\ cpu' = [cpu EXCEPT !.keys[IF idx = KEYS_COUNT THEN idx - 1 ELSE idx] = pressed]
  /\ ran' = <<>>
  /\ last' = Called("keypress", 0, 0, <<0, 0>>, <<idx, pressed>>)
  /\ calls' = calls + 1
  /\ UNCHANGED <<extensions, buffer, loaded, beeps, driver>>

\* Chip8VM::keypress, while fewer than limit calls were made
KeypressBy(limit, idx, pressed) ==
  /\ Alive /\ loaded /\ calls < limit
  /\ IF idx >= KEYS_COUNT
       THEN /\ result' = "Invalid key index"
            /\ UNCHANGED cpu
       ELSE /\ result' = OK
            /\ cpu' = [cpu EXCEPT !.keys[idx] = pressed]
  /\ ran' = <<>>
  /\ last' = Called("keypress", 0, 0, <<0, 0>>, <<idx, pressed>>)
  /\ calls' = calls + 1
  /\ UNCHANGED <<extensions, buffer, loaded, beeps, driver>>

\* CpuState::reset on the machine of a run, as test_reset calls it; the image
\* is gone from memory, so the driver loads it again before the next step.
\* The call records the pc and the timers it found.
ResetVm ==
  /\ Alive /\ loaded
  /\ cpu' = Reset(cpu)
  /\ result' = OK
  /\ ran' = <<>>
  /\ last' = Called("reset", cpu.pc, 0, <<cpu.delay_timer, cpu.sound_timer>>, <<>>)
  /\ loaded' = FALSE
  /\ UNCHANGED <<extensions, buffer, calls, beeps, driver>>

Next ==
  \/ LoadRom
  \/ Tick
  \/ TickTimersBy(MaxCalls)
  \/ \E idx \in {1, KEYS_COUNT}, pressed \in BOOLEAN : KeypressBy(MaxCalls, idx, pressed)

Spec == Init /\ [][Next]_vars

\* the same machine on the call/return programs
SpecStack == InitWith(RomsStack, ExtLists) /\ [][Next]_vars

\* on the programs that address memory through the index register
SpecMem ==
  InitWith(RomsMem, {<<>>, <<SCHIP(TRUE), XO(TRUE)>>, <<XO(TRUE)>>}) /\ [][Next]_vars

\* on the register arithmetic programs
SpecAlu == InitWith(RomsAlu, {<<>>, <<SCHIP(TRUE), XO(TRUE)>>}) /\ [][Next]_vars


\* a machine given an image of a length around the largest that fits: a jump
\* to itself in the first two bytes, 171 in the last byte, zero between
InitLoad ==
  /\ cpu = CpuReset
  /\ extensions \in {<<>>, <<SCHIP(TRUE), XO(TRUE)>>}
  /\ buffer \in
       { [k \in 1 .. n |-> CASE k = n /\ k > 2 -> 171
                            [] k = 1 -> Halt(0) \div 256
                            [] k = 2 -> Halt(0) % 256
                            [] OTHER -> 0] :
           n \in {0, 1, 2, RAM_SIZE - START_ADDR - 1, RAM_SIZE - START_ADDR,
                  RAM_SIZE - START_ADDR + 1, RAM_SIZE - START_ADDR + 2} }
  /\ loaded = FALSE
  /\ result = "none"
  /\ ran = <<>>
  /\ last = Called("new", 0, 0, <<0, 0>>, <<>>)
  /\ calls = 0
  /\ beeps = 0
  /\ driver = DriverNew(FALSE)

SpecLoad == InitLoad /\ [][Next]_vars

\* the keypad programs, with a longer sequence of key events and no timer
\* calls; the keypad indices are the lowest, one between, the highest and one
\* out of range
SpecKeys ==
  InitWith(RomsKeypad, {<<>>, <<SCHIP(TRUE), XO(TRUE)>>})
    /\ [][ \/ LoadRom
           \/ Tick
           \/ \E idx \in {0, 2, KEYS_COUNT - 1, KEYS_COUNT}, pressed \in BOOLEAN :
                 KeypressBy(MaxPresses, idx, pressed) ]_vars

\* on the programs that draw and clear
SpecDraw == InitWith(RomsDraw, {<<>>, <<SCHIP(TRUE)>>, <<XO(TRUE)>>}) /\ [][Next]_vars


\* programs that write register 0 with n and then the sound timer with it,
\* with a sequence of timer updates that outlasts the longest countdown
SpecBeep ==
  InitWith({ <<OpXNN(6, 0, n), Op(15, 0, 1, 8), Halt(2)>> : n \in 0 .. 3 },
           {<<>>, <<SCHIP(TRUE), XO(TRUE)>>})
    /\ [][ \/ LoadRom
           \/ Tick
           \/ TickTimersBy(MaxTimerCalls) ]_vars

\* the extension programs.  A tour with V0 = v: plane mask, a glyph drawn in
\* lo-res and in hi-res, the flag bank, both timers, back to lo-res, a call
RomExtTour(v) ==
  <<OpXNN(6, 0, v), Op(15, 0, 0, 1), OpXNN(6, 1, 7), OpNNN(10, 0), Op(13, 0, 1, 5),
    Op(0, 0, 15, 15), Op(13, 0, 1, 5), Op(15, 1, 7, 5), Op(15, 1, 1, 8),
    Op(15, 1, 1, 5), Op(0, 0, 15, 14), OpNNN(2, At(12)), Halt(12)>>

\* registers 0..2 saved to the flag bank, overwritten, restored; then 0..7
RomFlags ==
  <<OpXNN(6, 0, 5), OpXNN(6, 1, 6), OpXNN(6, 2, 7), Op(15, 2, 7, 5),
    OpXNN(6, 0, 9), OpXNN(6, 1, 10), Op(0, 0, 15, 15), Op(8, 0, 1, 4),
    Op(15, 0, 8, 5), Op(15, 2, 8, 5), OpXNN(6, 7, 17), Op(15, 7, 7, 5),
    OpXNN(6, 7, 0), Op(15, 7, 8, 5), Halt(14)>>

\* DXY0 at (vx, vy) in the resolution res sets, of a 32-byte sprite with bits
\* at row 0 columns 0 and 15, row 1 column 1 and row 15 column 15
RomDraw16(res, vx, vy) ==
  <<res, OpXNN(6, 0, vx), OpXNN(6, 1, vy), OpNNN(10, At(6)), Op(13, 0, 1, 0), Halt(5),
    32769, 16384>> \o [k \in 1 .. 13 |-> 0] \o <<1>>

\* V0 = 3, pre (the plane mask from V0, or V0 = 3 again), a glyph at (3, 2) in
\* the resolution res sets, then op
RomScroll(res, pre, op) ==
  <<res, OpXNN(6, 0, 3), pre, OpXNN(6, 1, 2), OpNNN(10, 0),
    Op(13, 0, 1, 5), op, Halt(7)>>

RomsExt ==
  {RomExtTour(v) : v \in {0, 2, 3, 7}} \cup {RomFlags}
    \cup {RomDraw16(res, p[1], p[2]) :
            res \in {Op(0, 0, 15, 14), Op(0, 0, 15, 15)}, p \in {<<0, 0>>, <<60, 30>>}}
    \cup {RomScroll(res, pre, op) :
            res \in {Op(0, 0, 15, 14), Op(0, 0, 15, 15)},
            pre \in {Op(15, 0, 0, 1), OpXNN(6, 0, 3)},
            op \in {Op(0, 0, 12, 0), Op(0, 0, 12, 1), Op(0, 0, 12, 15),
                    Op(0, 0, 15, 11), Op(0, 0, 15, 12), Op(0, 0, 15, 13)}}

\* on the extension programs, with reset among the calls
SpecExt == InitWith(RomsExt, ExtLists) /\ [][Next \/ ResetVm]_vars

\* the plane programs.  Mask v, then the first k font bytes drawn twice at
\* (x, y) in the resolution res sets
RomXoDraw(res, v, k, x, y) ==
  <<res, OpXNN(6, 0, v), Op(15, 0, 0, 1), OpXNN(6, 1, x), OpXNN(6, 2, y),
    OpNNN(10, 0), Op(13, 1, 2, k), Op(13, 1, 2, k), Halt(8)>>

\* a glyph on plane 1 only, drawn again with mask 3 and once more with mask 2
RomXoPlanes ==
  <<OpXNN(6, 0, 1), Op(15, 0, 0, 1), OpXNN(6, 1, 3), OpXNN(6, 2, 2), OpNNN(10, 0),
    Op(13, 1, 2, 5), OpXNN(6, 0, 3), Op(15, 0, 0, 1), Op(13, 1, 2, 5),
    OpXNN(6, 0, 2), Op(15, 0, 0, 1), Op(13, 1, 2, 5), Halt(12)>>

\* mask v, then DXY0 at (0, 0) of two bitmaps: the first with bits at row 0
\* columns 0 and 15, the second with bits at row 0 columns 0 and 1 and at row 2
\* column 0
RomXoDraw16(v) ==
  <<OpXNN(6, 0, v), Op(15, 0, 0, 1), OpNNN(10, At(5)), Op(13, 1, 1, 0), Halt(4),
    32769>> \o [k \in 1 .. 15 |-> 0]
            \o <<49152, 0, 32768>> \o [k \in 1 .. 13 |-> 0]

\* a glyph at (3, 2) on both planes in the resolution res sets, mask v, then op
RomXoMasked(res, v, op) ==
  <<res, OpXNN(6, 0, 3), Op(15, 0, 0, 1), OpXNN(6, 1, 2), OpNNN(10, 0),
    Op(13, 0, 1, 5), OpXNN(6, 0, v), Op(15, 0, 0, 1), op, Halt(9)>>

RomsXo ==
  {RomXoDraw(res, v, k, p[1], p[2]) :
     res \in {Op(0, 0, 15, 14), Op(0, 0, 15, 15)}, v \in 0 .. 3, k \in {1, 5, 15},
     p \in {<<3, 2>>, <<60, 30>>}}
    \cup {RomXoPlanes}
    \cup {RomXoDraw16(v) : v \in 1 .. 3}
    \cup {RomXoMasked(res, v, op) :
            res \in {Op(0, 0, 15, 14), Op(0, 0, 15, 15)}, v \in 0 .. 3,
            op \in {Op(0, 0, 12, 0), Op(0, 0, 12, 1), Op(0, 0, 12, 15), Op(0, 0, 14, 0),
                    Op(0, 0, 15, 14), Op(0, 0, 15, 15), Op(0, 0, 15, 11)}}

\* on the plane programs, XO-Chip alone and with Super-CHIP after or before it
SpecXo ==
  InitWith(RomsXo, {<<XO(TRUE)>>, <<XO(TRUE), SCHIP(TRUE)>>, <<SCHIP(TRUE), XO(TRUE)>>})
    /\ [][Next]_vars

(***************************************************************************)
(* The main loop of run and the debugger prompt                            *)
(***************************************************************************)
\* main.rs: TICK_PER_FRAME
TICK_PER_FRAME == 10

\* addresses the operator gives to break and clear
BreakAddrs == {At(0), At(2)}

\* Chip8VM::tick as a value: the state left, the result, who saw the opcode and
\* the addresses fetched so far
TickOf(t, rng) ==
  IF FetchPanics(t.cpu)
    THEN [cpu |-> t.cpu, res |-> PANIC, ran |-> <<>>, pcs |-> Append(t.pcs, t.cpu.pc)]
    ELSE LET d == Execute(extensions, FetchAdvance(t.cpu), FetchOp(t.cpu), rng)
         IN [cpu |-> d.cpu, res |-> d.res, ran |-> d.ran, pcs |-> Append(t.pcs, t.cpu.pc)]

\* chip8.tick()?: the outcomes of one more tick, none after a tick that failed
TickOutcomes(t) ==
  IF t.res # OK THEN {t}
  ELSE IF FetchPanics(t.cpu) THEN {TickOf(t, 0)}
  ELSE {TickOf(t, rng) : rng \in RngFor(FetchOp(t.cpu))}

\* for _ in 0..TICK_PER_FRAME { chip8.tick()?; }
RECURSIVE FrameTicks(_, _)
FrameTicks(T, k) ==
  IF k = 0 THEN T ELSE FrameTicks(UNION {TickOutcomes(t) : t \in T}, k - 1)

\* one iteration of the main loop, F1 pressed or not and the keys in down held:
\* it enters run_debugger_loop when paused, pauses at a breakpoint, and
\* otherwise passes the keys, ticks TICK_PER_FRAME times and updates the timers
Frame(f1, down) ==
  /\ Alive /\ loaded /\ driver.at = "loop"
  /\ LET paused == IF f1 THEN ~driver.paused ELSE driver.paused
     IN IF paused
          THEN /\ driver' = [driver EXCEPT !.paused = TRUE, !.at = "prompt",
                                           !.hit = driver.paused /\ driver.hit]
               /\ last' = Called("frame", cpu.pc, 0, <<0, 0>>, <<>>)
               /\ result' = OK
               /\ UNCHANGED <<cpu, beeps>>
          ELSE IF cpu.pc \in driver.breakpoints
          THEN /\ driver' = [driver EXCEPT !.paused = TRUE, !.hit = TRUE]
               /\ last' = Called("frame", cpu.pc, 0, <<0, 0>>, <<>>)
               /\ result' = OK
               /\ UNCHANGED <<cpu, beeps>>
          ELSE LET keyed == [cpu EXCEPT !.keys = [k \in 0 .. KEYS_COUNT - 1 |-> k \in down]]
                   start == [cpu |-> keyed, res |-> OK, ran |-> <<>>, pcs |-> <<>>]
               IN \E t \in FrameTicks({start}, TICK_PER_FRAME) :
                    /\ result' = t.res
                    /\ last' = Called("frame", cpu.pc, 0, <<0, 0>>, t.pcs)
                    /\ IF t.res = OK
                         THEN /\ cpu' = TimersAfter(t.cpu)
                              /\ beeps' = IF cpu'.sound_timer = 1 THEN beeps + 1 ELSE beeps
                              /\ driver' = [driver EXCEPT !.paused = FALSE, !.hit = FALSE]
                         ELSE /\ cpu' = t.cpu
                              /\ driver' = [driver EXCEPT !.paused = FALSE, !.hit = FALSE,
                                                          !.at = "exit"]
                              /\ UNCHANGED beeps
  /\ ran' = <<>>
  /\ UNCHANGED <<extensions, buffer, loaded, calls>>

\* while !rl.window_should_close(): the window was closed
WindowClose ==
  /\ Alive /\ loaded /\ driver.at = "loop"
  /\ driver' = [driver EXCEPT !.at = "exit"]
  /\ last' = Called("close", cpu.pc, 0, <<0, 0>>, <<>>)
  /\ UNCHANGED <<cpu, extensions, buffer, loaded, result, ran, calls, beeps>>

\* run_debugger_loop, DebugAction::Step: a tick, the timers, then the address
\* and the opcode at it are printed (fetch_op indexes memory)
DebugStep ==
  /\ Alive /\ loaded /\ driver.at = "prompt"
  /\ \E t \in TickOutcomes([cpu |-> cpu, res |-> OK, ran |-> <<>>, pcs |-> <<>>]) :
       /\ last' = Called("step", cpu.pc, 0, <<0, 0>>, t.pcs)
       /\ ran' = t.ran
       /\ IF t.res # OK
            THEN /\ cpu' = t.cpu
                 /\ result' = t.res
                 /\ driver' = [driver EXCEPT !.at = "exit", !.hit = FALSE]
                 /\ UNCHANGED beeps
            ELSE /\ cpu' = TimersAfter(t.cpu)
                 /\ beeps' = IF cpu'.sound_timer = 1 THEN beeps + 1 ELSE beeps
                 /\ result' = IF FetchPanics(cpu') THEN PANIC ELSE OK
                 /\ driver' = [driver EXCEPT !.hit = FALSE,
                                             !.at = IF FetchPanics(cpu') THEN "exit" ELSE "prompt"]
  /\ UNCHANGED <<extensions, buffer, loaded, calls>>

\* run_debugger_loop, DebugAction::Continue: *paused = false; break
DebugContinue ==
  /\ Alive /\ loaded /\ driver.at = "prompt"
  /\ driver' = [driver EXCEPT !.paused = FALSE, !.at = "loop"]
  /\ last' = Called("continue", cpu.pc, 0, <<0, 0>>, <<>>)
  /\ UNCHANGED <<cpu, extensions, buffer, loaded, result, ran, calls, beeps>>

\* run_debugger_loop, DebugAction::Quit: std::process::exit(0)
DebugQuit ==
  /\ Alive /\ loaded /\ driver.at = "prompt"
  /\ driver' = [driver EXCEPT !.at = "exit"]
  /\ last' = Called("quit", cpu.pc, 0, <<0, 0>>, <<>>)
  /\ UNCHANGED <<cpu, extensions, buffer, loaded, result, ran, calls, beeps>>

\* break <addr>: Debugger::set_breakpoint
DebugBreak(addr) ==
  /\ Alive /\ loaded /\ driver.at = "prompt"
  /\ driver' = [driver EXCEPT !.breakpoints = @ \cup {addr}]
  /\ last' = Called("break", cpu.pc, 0, <<0, 0>>, <<addr>>)
  /\ UNCHANGED <<cpu, extensions, buffer, loaded, result, ran, calls, beeps>>

\* clear <addr>: Debugger::clear_breakpoint
DebugClear(addr) ==
  /\ Alive /\ loaded /\ driver.at = "prompt"
  /\ driver' = [driver EXCEPT !.breakpoints = @ \ {addr}]
  /\ last' = Called("clear", cpu.pc, 0, <<0, 0>>, <<addr>>)
  /\ UNCHANGED <<cpu, extensions, buffer, loaded, result, ran, calls, beeps>>

\* run: the machine is built with Super-CHIP or without, paused = cli.debug;
\* the programs are a counter that wraps at 4 and a counter that ends in a
\* return with an empty stack; no key or the key 5 is held during a frame.
\* The main loop iterates for as long as the window is open; the commands at
\* the prompt and the closing of the window are the operator's to give or not
SpecDebug ==
  /\ cpu = CpuReset
  /\ extensions \in {<<>>, <<SCHIP(TRUE)>>}
  /\ buffer \in {Bytes(w) : w \in
       { <<OpXNN(6, 0, 0), OpXNN(7, 0, 1), OpXNN(3, 0, 4), OpNNN(1, At(1)), OpNNN(1, At(0))>>,
         <<OpXNN(6, 0, 0), OpXNN(7, 0, 1), OpXNN(3, 0, 5), OpNNN(1, At(1)), Op(0, 0, 14, 14)>> }}
  /\ loaded = FALSE
  /\ result = "none"
  /\ ran = <<>>
  /\ last = Called("new", 0, 0, <<0, 0>>, <<>>)
  /\ calls = 0
  /\ beeps = 0
  /\ driver \in {DriverNew(debug) : debug \in BOOLEAN}
  /\ [][ \/ LoadRom
         \/ \E f1 \in BOOLEAN, down \in {{}, {5}} : Frame(f1, down)
         \/ WindowClose
         \/ DebugStep
         \/ DebugContinue
         \/ DebugQuit
         \/ \E addr \in BreakAddrs : DebugBreak(addr)
         \/ \E addr \in BreakAddrs : DebugClear(addr) ]_vars
  /\ WF_vars(LoadRom)
  /\ WF_vars(\E f1 \in BOOLEAN, down \in {{}, {5}} : Frame(f1, down))

(***************************************************************************)
(* Properties                                                              *)
(***************************************************************************)
\* the state is the one a tick left, and its fetch succeeded
TickDone == last.kind = "tick" /\ last.op >= 0

\* this step is a tick whose fetch succeeded; cpu is the state before it
Ticked == last'.kind = "tick" /\ last'.op >= 0 /\ vars' # vars

\* the executor that ended the last tick
Ender == ran[Len(ran)]
BaseRan == Len(ran) > 0 /\ Ender.who = 0

Hex00E0 == 224
Hex00EE == 238
Hex00FF == 255
HexFFFF == 65535

\* C1: in every tick the opcode is offered to the extensions in registration
\* order; an inactive extension is never offered it; an extension that does not
\* decline ends the step, so nothing after a consumer sees the opcode; the base
\* table runs exactly when every active extension declined.
C1_DispatchOrder ==
  TickDone =>
    LET n == Len(extensions)
        Pos(k) == IF ran[k].who = 0 THEN n + 1 ELSE ran[k].who
        Declined(e) == \E j \in 1 .. Len(ran) : ran[j].who = e /\ ran[j].out = DECLINED
    IN /\ Len(ran) >= 1
       /\ \A k \in 1 .. Len(ran) :
            ran[k].who # 0 =>
              /\ ran[k].who \in 1 .. n
              /\ extensions[ran[k].who].active
              /\ ran[k].name = extensions[ran[k].who].name
       /\ \A j, k \in 1 .. Len(ran) : j < k => Pos(j) < Pos(k)
       /\ \A k \in 1 .. Len(ran) : \A e \in 1 .. n :
            (extensions[e].active /\ e < Pos(k)) =>
              \E j \in 1 .. k - 1 : ran[j].who = e /\ ran[j].out = DECLINED
       /\ \A k \in 1 .. Len(ran) :
            (ran[k].who # 0 /\ ran[k].out # DECLINED) => k = Len(ran)
       /\ (\E k \in 1 .. Len(ran) : ran[k].who = 0)
            <=> (\A e \in 1 .. n : extensions[e].active => Declined(e))
       /\ (Ender.out = CONSUMED => result = OK)

\* the first of two active extensions declined and the second consumed
C1_Witness ==
  /\ TickDone /\ Len(extensions) = 2 /\ Len(ran) = 2
  /\ ran[1].out = DECLINED /\ ran[2].out = CONSUMED /\ ran[2].who = 2

\* C2: the stack pointer stays in 0..16; a Call succeeds (sp + 1) exactly when
\* sp < 16 and otherwise fails with stack overflow (sp unchanged); a Return
\* succeeds (sp - 1) exactly when sp > 0 and otherwise fails with stack
\* underflow (sp unchanged).
C2_StackDiscipline ==
  [][ /\ cpu'.sp \in 0 .. 16
      /\ (Ticked /\ D1(last'.op) = 2) =>
           IF cpu.sp < 16
             THEN result' = OK /\ cpu'.sp = cpu.sp + 1
             ELSE result' = "Stack overflow" /\ cpu'.sp = cpu.sp
      /\ (Ticked /\ last'.op = Hex00EE) =>
           IF cpu.sp > 0
             THEN result' = OK /\ cpu'.sp = cpu.sp - 1
             ELSE result' = "Stack underflow" /\ cpu'.sp = cpu.sp ]_vars

\* 16 calls filled the stack, the 17th failed, 16 returns emptied it and one
\* more return failed
C2_Witness ==
  /\ TickDone /\ last.op = Hex00EE /\ result = "Stack underflow" /\ cpu.sp = 0
  /\ \A k \in 0 .. 15 : cpu.stack[k] = At(1)

\* C3 (as claimed): once a program is loaded the program counter is even and
\* the two bytes of the next fetch are inside memory.
C3_PcEvenInMemory ==
  (loaded /\ Alive) => (cpu.pc % 2 = 0 /\ cpu.pc + 1 < RAM_SIZE)

\* the highest address an opcode that works through I touches, or -1; who is
\* the executor the opcode ended with
TopAddress(c, op, who) ==
  LET i == c.i_register
      x == D2(op)
      y == D3(op)
      n == D4(op)
  IN CASE who = BASE /\ D1(op) = 13 /\ n > 0 -> i + n - 1
       [] who = BASE /\ D1(op) = 15 /\ NN(op) = 51 -> i + 2
       [] who = BASE /\ D1(op) = 15 /\ NN(op) \in {85, 101} -> i + x
       [] who # BASE /\ D1(op) = 13 /\ n = 0 -> i + 31
       [] who = "XO-Chip" /\ D1(op) = 13 /\ n > 0 -> i + n - 1
       [] who = "XO-Chip" /\ D1(op) = 5 /\ n \in {2, 3} /\ x <= y -> i + (y - x)
       [] who = "XO-Chip" /\ D1(op) = 15 /\ NN(op) = 15 /\ c.registers[x] > 0 ->
            i + c.registers[x] - 1
       [] OTHER -> -1

OutOfBoundsErrors ==
  { "Memory access out of bounds for sprite draw",
    "Memory access out of bounds for 16x16 sprite draw",
    "Memory access out of bounds for 16x16 sprite plane 2",
    "Memory store out of bounds", "Memory load out of bounds",
    "Audio buffer out of bounds" }

\* C4 (as claimed): an opcode that would touch an address of 4096 or more
\* through the index register returns a fatal out-of-bounds error.
C4_IndexedAccessChecked ==
  [][ (Ticked /\ Len(ran') > 0
       /\ TopAddress(cpu, last'.op, ran'[Len(ran')].name) >= RAM_SIZE)
        => result' \in OutOfBoundsErrors ]_vars

IsStore(op) == D1(op) = 15 /\ NN(op) = 85
IsLoad(op) == D1(op) = 15 /\ NN(op) = 101

\* C5: FX55 and FX65 succeed exactly when I + X < 4096; otherwise they fail
\* with their out-of-bounds error and change no register and no memory cell.
C5_BlockBounds ==
  [][ (Ticked /\ (IsStore(last'.op) \/ IsLoad(last'.op))) =>
        IF cpu.i_register + D2(last'.op) < 4096
          THEN result' = OK
          ELSE /\ result' = (IF IsStore(last'.op) THEN "Memory store out of bounds"
                                                  ELSE "Memory load out of bounds")
               /\ cpu'.registers = cpu.registers
               /\ cpu'.memory = cpu.memory ]_vars

\* X = 15: the store at 4080 succeeded (VF = 7 reached the last cell) and the
\* store at 4081 failed
C5_Witness ==
  /\ TickDone /\ last.op = Op(15, 15, 5, 5) /\ result = "Memory store out of bounds"
  /\ cpu.i_register = 4081 /\ Mem(cpu, 4095) = 7 /\ cpu.registers[15] = 7

\* C6: a successful FX55 writes registers 0..X to cells I..I+X and nothing
\* else; a successful FX65 reads them back into registers 0..X and changes
\* nothing else; neither moves I; and an FX65 right after an FX55 with the same
\* X leaves registers 0..X as they were before the store.
C6_BlockRoundTrip ==
  [][ /\ (Ticked /\ IsStore(last'.op) /\ result' = OK) =>
           LET i == cpu.i_register
               x == D2(last'.op)
           IN /\ \A a \in 0 .. RAM_SIZE - 1 :
                   Mem(cpu', a) = IF a >= i /\ a <= i + x THEN cpu.registers[a - i]
                                  ELSE Mem(cpu, a)
              /\ cpu'.registers = cpu.registers
              /\ cpu'.i_register = i
      /\ (Ticked /\ IsLoad(last'.op) /\ result' = OK) =>
           LET i == cpu.i_register
               x == D2(last'.op)
           IN /\ \A r \in 0 .. 15 :
                   cpu'.registers[r] = IF r <= x THEN Mem(cpu, i + r) ELSE cpu.registers[r]
              /\ cpu'.memory = cpu.memory
              /\ cpu'.i_register = i
      /\ (/\ TickDone /\ IsStore(last.op) /\ result = OK
          /\ Ticked /\ IsLoad(last'.op) /\ D2(last'.op) = D2(last.op)) =>
           /\ result' = OK
           /\ \A r \in 0 .. D2(last.op) : cpu'.registers[r] = cpu.registers[r] ]_vars

\* V0..VF went to 4080..4095 and came back
C6_Witness ==
  /\ TickDone /\ last.op = Op(15, 15, 6, 5) /\ result = OK /\ cpu.i_register = 4080
  /\ \A r \in 0 .. 15 : cpu.registers[r] = 16 * r + 1 /\ Mem(cpu, 4080 + r) = 16 * r + 1

\* the opcodes the base table has an entry for
InBaseTable(op) ==
  \/ op \in {0, Hex00E0, Hex00EE}
  \/ D1(op) \in {1, 2, 3, 4, 6, 7, 10, 11, 12, 13}
  \/ D1(op) \in {5, 9} /\ D4(op) = 0
  \/ D1(op) = 8 /\ D4(op) \in {0, 1, 2, 3, 4, 5, 6, 7, 14}
  \/ D1(op) = 14 /\ NN(op) \in {158, 161}
  \/ D1(op) = 15 /\ NN(op) \in {7, 10, 21, 24, 30, 41, 51, 85, 101}

\* C7: when every active extension declined an opcode that the base table has
\* no entry for, the tick returns the unimplemented-opcode error; 5XY1, 8XY8,
\* 9XY1 and 0xFFFF always do, and 0x00FF does when no extension is active.
C7_UnknownOpcodeFatal ==
  TickDone =>
    /\ (BaseRan /\ ~InBaseTable(last.op)) => result = "Unimplemented or unknown opcode"
    /\ (\/ last.op \in {Op(5, 0, 1, 1), Op(8, 0, 1, 8), Op(9, 0, 1, 1), HexFFFF}
        \/ last.op = Hex00FF /\ \A e \in 1 .. Len(extensions) : ~extensions[e].active)
         => result = "Unimplemented or unknown opcode"

\* 0xFFFF went past two active extensions to the base table and failed there
C7_Witness ==
  /\ TickDone /\ last.op = HexFFFF /\ Len(ran) = 3 /\ BaseRan
  /\ result = "Unimplemented or unknown opcode"

\* jump, call, return, indexed jump, wait-for-key
IsControl(op) ==
  D1(op) \in {1, 2, 11} \/ op = Hex00EE \/ (D1(op) = 15 /\ NN(op) = 10)

\* the four conditional skips whose condition holds in c
SkipHolds(c, op) ==
  LET vx == c.registers[D2(op)]
      vy == c.registers[D3(op)]
  IN \/ D1(op) = 3 /\ vx = NN(op)
     \/ D1(op) = 4 /\ vx # NN(op)
     \/ D1(op) = 5 /\ D4(op) = 0 /\ vx = vy
     \/ D1(op) = 9 /\ D4(op) = 0 /\ vx # vy

\* the two key skips whose condition holds in c
KeySkipHolds(c, op) ==
  LET vx == c.registers[D2(op)]
  IN /\ D1(op) = 14 /\ vx < 16
     /\ \/ NN(op) = 158 /\ c.keys[vx]
        \/ NN(op) = 161 /\ ~c.keys[vx]

\* C8 (as claimed): the opcode is the big-endian word at the program counter;
\* after a successful step of an opcode that is no jump, call, return or
\* wait-for-key the program counter is old + 2, or old + 4 exactly when it is
\* one of 3XNN, 4XNN, 5XY0, 9XY0 and its condition holds.
C8_PcAdvanceOriginal ==
  [][ Ticked =>
        /\ last'.pc = cpu.pc
        /\ last'.op = Mem(cpu, cpu.pc) * 256 + Mem(cpu, cpu.pc + 1)
        /\ (result' = OK /\ ~IsControl(last'.op)) =>
             cpu'.pc = cpu.pc + (IF SkipHolds(cpu, last'.op) THEN 4 ELSE 2) ]_vars

\* C8 (amended): as above, with the key skips EX9E and EXA1 counted among the
\* conditional skips.
C8_PcAdvance ==
  [][ Ticked =>
        /\ last'.pc = cpu.pc
        /\ last'.op = Mem(cpu, cpu.pc) * 256 + Mem(cpu, cpu.pc + 1)
        /\ (result' = OK /\ ~IsControl(last'.op)) =>
             cpu'.pc = cpu.pc + (IF SkipHolds(cpu, last'.op) \/ KeySkipHolds(cpu, last'.op)
                                   THEN 4 ELSE 2) ]_vars

\* EXA1 skipped (key 1 not pressed) after 3042 skipped earlier in the program
C8_Witness ==
  /\ TickDone /\ last.op = Op(14, 0, 10, 1) /\ result = OK /\ cpu.pc = last.pc + 4
  /\ ~cpu.keys[cpu.registers[0]] /\ Len(ran) = 3

\* C9: a successful Call at A stores A + 2 in the free stack slot and goes to
\* its operand; a successful Return goes to the top entry and frees it; no step
\* changes an entry that stays on the stack; so a Return right after a Call
\* comes back to A + 2 with the stack pointer restored.
C9_CallReturn ==
  [][ /\ (Ticked /\ D1(last'.op) = 2 /\ result' = OK) =>
           /\ cpu'.stack = [cpu.stack EXCEPT ![cpu.sp] = last'.pc + 2]
           /\ cpu'.sp = cpu.sp + 1
           /\ cpu'.pc = NNN(last'.op)
      /\ (Ticked /\ last'.op = Hex00EE /\ result' = OK) =>
           /\ cpu'.pc = cpu.stack[cpu.sp - 1]
           /\ cpu'.sp = cpu.sp - 1
           /\ cpu'.stack = cpu.stack
      /\ \A k \in 0 .. 15 : (k < cpu.sp /\ k < cpu'.sp) => cpu'.stack[k] = cpu.stack[k]
      /\ (/\ TickDone /\ D1(last.op) = 2 /\ result = OK
          /\ Ticked /\ last'.op = Hex00EE) =>
           /\ result' = OK
           /\ cpu'.pc = last.pc + 2
           /\ cpu'.sp = cpu.sp - 1 ]_vars

\* two nested calls returned in last-in-first-out order: first to At(4), then
\* to At(1)
C9_Witness ==
  /\ TickDone /\ last.op = Hex00EE /\ result = OK /\ last.pc = At(4)
  /\ cpu.pc = At(1) /\ cpu.sp = 0 /\ cpu.stack[0] = At(1) /\ cpu.stack[1] = At(4)

IsAlu(op) == D1(op) = 8 /\ D4(op) \in {0, 1, 2, 3, 4, 5, 6, 7, 14}
WritesFlag(op) == D1(op) = 8 /\ D4(op) \in {4, 5, 6, 7, 14}

\* the value 8XYn gives VX from vx and vy, bit by bit for the logic opcodes
AluResult(n, vx, vy, r) ==
  CASE n = 0 -> r = vy
    [] n = 1 -> \A k \in 0 .. 7 : Bit(r, k) = 1 <=> (Bit(vx, k) = 1 \/ Bit(vy, k) = 1)
    [] n = 2 -> \A k \in 0 .. 7 : Bit(r, k) = 1 <=> (Bit(vx, k) = 1 /\ Bit(vy, k) = 1)
    [] n = 3 -> \A k \in 0 .. 7 : Bit(r, k) = 1 <=> (Bit(vx, k) # Bit(vy, k))
    [] n = 4 -> r = (vx + vy) % 256
    [] n = 5 -> r = (vx - vy) % 256
    [] n = 6 -> r = vx \div 2
    [] n = 7 -> r = (vy - vx) % 256
    [] n = 14 -> r = (2 * vx) % 256

\* C10 (as claimed): each of the nine register ALU opcodes leaves a flag (0 or
\* 1) in register 15.
C10_AluOverwritesFlagOriginal ==
  [][ (Ticked /\ IsAlu(last'.op)) => cpu'.registers[15] \in {0, 1} ]_vars

\* C10 (amended): each of the nine opcodes succeeds and writes its result to
\* VX when X is not 15; 8XY4, 8XY5 and 8XY7, and the shifts 8XY6 and 8XYE with
\* X other than 15, also leave a flag (0 or 1) in register 15 whatever it held;
\* a shift of register 15 itself leaves there the extracted bit shifted once
\* more; 8XY0..8XY3 change no register but VX.
C10_AluWrites ==
  [][ (Ticked /\ IsAlu(last'.op)) =>
        LET x == D2(last'.op)
            y == D3(last'.op)
            n == D4(last'.op)
            vx == cpu.registers[x]
            vy == cpu.registers[y]
        IN /\ result' = OK
           /\ x # 15 => AluResult(n, vx, vy, cpu'.registers[x])
           /\ IF WritesFlag(last'.op)
                THEN /\ \A r \in 0 .. 14 : r # x => cpu'.registers[r] = cpu.registers[r]
                     /\ CASE n \in {6, 14} /\ x = 15 ->
                               cpu'.registers[15] = IF n = 6 THEN 0 ELSE 2 * (vx \div 128)
                          [] OTHER -> cpu'.registers[15] \in {0, 1}
                ELSE /\ \A r \in 0 .. 15 : r # x => cpu'.registers[r] = cpu.registers[r]
                     /\ x = 15 => AluResult(n, vx, vy, cpu'.registers[x]) ]_vars

\* 128 + 128: the add replaced the 7 in VF by its carry
C10_Witness ==
  /\ TickDone /\ result = OK
  /\ last.op = Op(8, 0, 1, 4) /\ cpu.registers[15] = 1 /\ cpu.registers[0] = 0
  /\ cpu.registers[1] = 128

\* C11: for all X and Y, after 8XY4 register 15 is 1 exactly when VX + VY
\* exceeds 255 and 0 otherwise, after 8XY5 it is 1 exactly when VX >= VY, after
\* 8XY7 it is 1 exactly when VY >= VX; when X is not 15, VX holds the sum or
\* difference modulo 256.
C11_AddSubFlags ==
  [][ (Ticked /\ D1(last'.op) = 8 /\ D4(last'.op) \in {4, 5, 7}) =>
        LET x == D2(last'.op)
            n == D4(last'.op)
            vx == cpu.registers[x]
            vy == cpu.registers[D3(last'.op)]
            flag == CASE n = 4 -> vx + vy > 255
                      [] n = 5 -> vx >= vy
                      [] n = 7 -> vy >= vx
            value == CASE n = 4 -> (vx + vy) % 256
                       [] n = 5 -> (vx - vy) % 256
                       [] n = 7 -> (vy - vx) % 256
        IN /\ result' = OK
           /\ cpu'.registers[15] = (IF flag THEN 1 ELSE 0)
           /\ x # 15 => cpu'.registers[x] = value ]_vars

\* 1 - 128 borrowed: V0 wrapped to 129 and the flag is 0
C11_Witness ==
  /\ TickDone /\ last.op = Op(8, 0, 1, 5) /\ result = OK
  /\ cpu.registers[0] = 129 /\ cpu.registers[1] = 128 /\ cpu.registers[15] = 0

\* C12 (as claimed): for every X, register 15 included, after 8XY6 register 15
\* is the lowest bit of the VX before the shift and after 8XYE its highest bit;
\* when X is not 15, VX holds the value shifted by one bit within 8 bits.
C12_ShiftFlags ==
  [][ (Ticked /\ D1(last'.op) = 8 /\ D4(last'.op) \in {6, 14}) =>
        LET x == D2(last'.op)
            n == D4(last'.op)
            vx == cpu.registers[x]
        IN /\ result' = OK
           /\ cpu'.registers[15] = (IF n = 6 THEN vx % 2 ELSE vx \div 128)
           /\ x # 15 =>
                cpu'.registers[x] = (IF n = 6 THEN vx \div 2 ELSE (2 * vx) % 256) ]_vars

\* the cells a DXYN of c toggles when its coordinates are vx and vy: one per
\* set bit of the n sprite bytes at I
DrawTargets(c, vx, vy, n) ==
  { ((vx + b) % c.current_width) + ((vy + r) % c.current_height) * 128 :
      <<r, b>> \in {rb \in (0 .. n - 1) \X (0 .. 7) :
                      Bit(Mem(c, c.i_register + rb[1]), 7 - rb[2]) = 1} }

\* C13 (as claimed): a successful base DXYN toggles exactly the cells
\* ((VX + c) mod width) + ((VY + r) mod height) * 128 of the set sprite bits,
\* leaves every other cell alone, and leaves 1 in register 15 if one of them was
\* set before and 0 otherwise.
C13_BaseDraw ==
  [][ (/\ Ticked /\ D1(last'.op) = 13 /\ D4(last'.op) > 0
       /\ ran'[Len(ran')].who = 0 /\ result' = OK) =>
        LET t == DrawTargets(cpu, cpu.registers[D2(last'.op)],
                             cpu.registers[D3(last'.op)], D4(last'.op))
        IN /\ cpu'.screen = (cpu.screen \ t) \cup (t \ cpu.screen)
           /\ cpu'.registers[15] = (IF t \cap cpu.screen # {} THEN 1 ELSE 0) ]_vars

\* C14: 00E0 succeeds in either resolution, leaves every cell of the active
\* viewport false and the program counter at old + 2; a second 00E0 right after
\* it succeeds too and leaves the display as it was.
C14_ClearScreen ==
  [][ (Ticked /\ last'.op = Hex00E0) =>
        /\ result' = OK
        /\ cpu'.pc = cpu.pc + 2
        /\ \A x \in 0 .. cpu'.current_width - 1 : \A y \in 0 .. cpu'.current_height - 1 :
             (x + y * 128) \notin cpu'.screen
        /\ (TickDone /\ last.op = Hex00E0) => cpu'.screen = cpu.screen ]_vars

\* lo-res after hi-res drawing: the second clear left the viewport empty (the
\* cell of (10, 10) too) and the cells lit outside it at (100, 40) on
C14_Witness ==
  /\ TickDone /\ last.op = Hex00E0 /\ last.pc = At(10) /\ result = OK
  /\ cpu.current_width = 64 /\ cpu.current_height = 32
  /\ (100 + 40 * 128) \in cpu.screen /\ (10 + 10 * 128) \notin cpu.screen
  /\ cpu.pc = At(11)

\* C15: with I + 2 inside memory, FX33 succeeds and writes VX div 100,
\* (VX div 10) mod 10 and VX mod 10 to the cells I, I + 1, I + 2; every other
\* cell, every register and I keep their values.
C15_Bcd ==
  [][ (/\ Ticked /\ D1(last'.op) = 15 /\ NN(last'.op) = 51
       /\ cpu.i_register + 2 < 4096) =>
        LET i == cpu.i_register
            v == cpu.registers[D2(last'.op)]
        IN /\ result' = OK
           /\ \A a \in 0 .. 4095 :
                Mem(cpu', a) = CASE a = i -> v \div 100
                                 [] a = i + 1 -> (v \div 10) % 10
                                 [] a = i + 2 -> v % 10
                                 [] OTHER -> Mem(cpu, a)
           /\ cpu'.registers = cpu.registers
           /\ cpu'.i_register = i ]_vars

\* 128 written as 1, 2, 8 to the last three cells of memory
C15_Witness ==
  /\ TickDone /\ last.op = Op(15, 0, 3, 3) /\ result = OK
  /\ cpu.registers[0] = 128 /\ cpu.i_register = 4093
  /\ Mem(cpu, 4093) = 1 /\ Mem(cpu, 4094) = 2 /\ Mem(cpu, 4095) = 8

\* C16: EX9E and EXA1 with VX of 16 or more return the key-index error; with VX
\* below 16 they succeed, EX9E leaves the program counter at old + 4 exactly
\* when key VX is pressed and EXA1 exactly when it is not, and at old + 2
\* otherwise; neither changes a key or a register.
C16_KeySkips ==
  [][ (Ticked /\ D1(last'.op) = 14 /\ NN(last'.op) \in {158, 161}) =>
        LET vx == cpu.registers[D2(last'.op)]
        IN /\ cpu'.keys = cpu.keys
           /\ cpu'.registers = cpu.registers
           /\ IF vx >= 16
                THEN result' = "Invalid key index in register VX"
                ELSE /\ result' = OK
                     /\ cpu'.pc = cpu.pc +
                          (IF cpu.keys[vx] = (NN(last'.op) = 158) THEN 4 ELSE 2) ]_vars

\* EF9E skipped on the pressed key 15 held in register 15
C16_Witness ==
  /\ TickDone /\ last.op = Op(14, 15, 9, 14) /\ result = OK
  /\ cpu.registers[15] = 15 /\ cpu.keys[15] /\ cpu.pc = last.pc + 4

\* C17: a step of FX0A succeeds; while no key is pressed it leaves the program
\* counter on the FX0A and the whole machine state as it was, however often it
\* is repeated; with a key pressed VX becomes the lowest pressed key, the
\* program counter moves to the next instruction and nothing else changes.
C17_WaitKey ==
  [][ (Ticked /\ D1(last'.op) = 15 /\ NN(last'.op) = 10) =>
        LET pressed == {k \in 0 .. 15 : cpu.keys[k]}
        IN /\ result' = OK
           /\ IF pressed = {}
                THEN /\ cpu'.pc = last'.pc
                     /\ cpu' = cpu
                ELSE /\ cpu'.pc = last'.pc + 2
                     /\ cpu'.registers[D2(last'.op)] \in pressed
                     /\ \A k \in pressed : cpu'.registers[D2(last'.op)] <= k
                     /\ cpu' = [cpu EXCEPT !.pc = cpu'.pc,
                                           !.registers[D2(last'.op)] = cpu'.registers[D2(last'.op)]] ]_vars

\* with keys 2 and 15 down the wait ended with 2 in V0
C17_Witness ==
  /\ TickDone /\ last.op = Op(15, 0, 0, 10) /\ result = OK
  /\ cpu.keys[2] /\ cpu.keys[15] /\ cpu.registers[0] = 2 /\ cpu.pc = last.pc + 2

\* C18: load succeeds exactly when 512 plus the length of the image is at most
\* 4096; on success the cells from 512 on hold the image bytes, every other
\* cell (the font included) and every other part of the machine state is as
\* before; on rejection nothing changed.
C18_Load ==
  [][ (last'.kind = "load" /\ vars' # vars) =>
        IF 512 + Len(buffer) <= 4096
          THEN /\ result' = OK /\ loaded'
               /\ \A a \in 0 .. 4095 :
                    Mem(cpu', a) = IF a >= 512 /\ a < 512 + Len(buffer)
                                     THEN buffer[a - 511] ELSE Mem(cpu, a)
               /\ \A a \in 0 .. 79 : Mem(cpu', a) = FONTSET[a + 1]
               /\ cpu' = [cpu EXCEPT !.memory = cpu'.memory]
          ELSE /\ result' = "ROM size exceeds available memory." /\ ~loaded'
               /\ cpu' = cpu ]_vars

\* the image of 3584 bytes is in memory up to the last cell
C18_Witness ==
  /\ last.kind = "load" /\ result = OK /\ loaded /\ Len(buffer) = 3584
  /\ Mem(cpu, 512) = 18 /\ Mem(cpu, 4094) = 0 /\ Mem(cpu, 4095) = 171

\* C19: keypress with an index of 16 or more returns an error and changes
\* nothing of the machine; with an index in 0..15 it succeeds, gives that key
\* the state passed and leaves the other keys and everything else as they were.
C19_Keypress ==
  [][ (last'.kind = "keypress" /\ vars' # vars) =>
        LET idx == last'.args[1]
            pressed == last'.args[2]
        IN /\ extensions' = extensions /\ loaded' = loaded
           /\ IF idx >= 16
                THEN result' = "Invalid key index" /\ cpu' = cpu
                ELSE /\ result' = OK
                     /\ cpu'.keys[idx] = pressed
                     /\ \A k \in 0 .. 15 : k # idx => cpu'.keys[k] = cpu.keys[k]
                     /\ cpu' = [cpu EXCEPT !.keys = cpu'.keys] ]_vars

\* key 2 was pressed and then key 15, the last call being the one for key 15
C19_Witness ==
  /\ last.kind = "keypress" /\ last.args = <<15, TRUE>> /\ result = OK
  /\ cpu.keys[2] /\ cpu.keys[15] /\ ~cpu.keys[0]

\* C20: tick_timers takes 1 from each of the two timers that is above 0 and
\* leaves a timer at 0 there, returns the two values it leaves, and changes
\* nothing else; a tick changes a timer only when its opcode is FX15 or FX18.
C20_Timers ==
  [][ /\ (last'.kind = "tick_timers" /\ vars' # vars) =>
           /\ cpu'.delay_timer = (IF cpu.delay_timer > 0 THEN cpu.delay_timer - 1 ELSE 0)
           /\ cpu'.sound_timer = (IF cpu.sound_timer > 0 THEN cpu.sound_timer - 1 ELSE 0)
           /\ last'.ret = <<cpu'.delay_timer, cpu'.sound_timer>>
           /\ cpu' = [cpu EXCEPT !.delay_timer = cpu'.delay_timer,
                                 !.sound_timer = cpu'.sound_timer]
           /\ extensions' = extensions /\ loaded' = loaded
      /\ (Ticked /\ ~(D1(last'.op) = 15 /\ NN(last'.op) \in {21, 24})) =>
           /\ cpu'.delay_timer = cpu.delay_timer
           /\ cpu'.sound_timer = cpu.sound_timer ]_vars

\* the delay timer, set to 66, went to 65 while the sound timer, not yet set,
\* stayed at 0
C20_Witness ==
  /\ last.kind = "tick_timers" /\ last.ret = <<65, 0>>
  /\ cpu.delay_timer = 65 /\ cpu.sound_timer = 0 /\ cpu.registers[1] = 66


\* C21: once a program has written n >= 1 to the sound timer and the timer
\* updates that followed have counted it down to 0, exactly one beep was
\* played, and never more than one while it counts.
C21_BeepOnce ==
  (loaded /\ cpu.pc = At(2) /\ cpu.registers[0] >= 1) =>
     /\ beeps <= 1
     /\ cpu.sound_timer = 0 => beeps = 1


\* C22: after construction with any extension list, and after reset from any
\* state of a run, memory holds the 80 font bytes at 0..79 and zero elsewhere,
\* pc is 0x200, registers, index register, stack, stack pointer, keys, timers,
\* display buffer, both planes and the flag bank are cleared, the plane mask
\* is 1 and the viewport is 64x32.
C22_InitialState ==
  last.kind \in {"new", "reset"} =>
    /\ \A a \in 0 .. RAM_SIZE - 1 :
         Mem(cpu, a) = IF a < 80 THEN FONTSET[a + 1] ELSE 0
    /\ cpu.pc = 512
    /\ \A r \in 0 .. 15 : cpu.registers[r] = 0
    /\ cpu.i_register = 0
    /\ \A s \in DOMAIN cpu.stack : cpu.stack[s] = 0
    /\ cpu.sp = 0
    /\ \A k \in 0 .. 15 : ~cpu.keys[k]
    /\ cpu.delay_timer = 0 /\ cpu.sound_timer = 0
    /\ cpu.screen = {} /\ cpu.plane_1 = {} /\ cpu.plane_2 = {}
    /\ \A f \in DOMAIN cpu.rpl_flags : cpu.rpl_flags[f] = 0
    /\ cpu.plane_mask = 1
    /\ cpu.current_width = 64 /\ cpu.current_height = 32
    /\ cpu = CpuReset

\* reset was called at the end of the program, with both extensions active:
\* hi-res, plane mask 3, flags saved, a sprite on the planes, both timers at 7
C22_Witness ==
  /\ last.kind = "reset" /\ last.pc = At(10) /\ last.ret = <<7, 7>>
  /\ extensions = <<SCHIP(TRUE), XO(TRUE)>> /\ buffer = Bytes(RomExtTour(3))
  /\ cpu.pc = 512 /\ cpu.rpl_flags[1] = 0 /\ ~loaded


\* C23 as stated: whenever a Super-CHIP extension is active in the list, a
\* tick of 00FF leaves the viewport 128x64 and a tick of 00FE leaves it 64x32,
\* the opcode is consumed by Super-CHIP, pc is old+2, and nothing else of the
\* machine state changes.
C23_ResolutionOriginal ==
  [][ (/\ Ticked /\ last'.op \in {254, 255}
       /\ \E i \in DOMAIN extensions : extensions[i] = SCHIP(TRUE)) =>
        /\ result' = OK
        /\ Ender'.name = "Super-CHIP" /\ Ender'.out = CONSUMED
        /\ cpu'.current_width = (IF last'.op = 255 THEN 128 ELSE 64)
        /\ cpu'.current_height = (IF last'.op = 255 THEN 64 ELSE 32)
        /\ cpu'.pc = cpu.pc + 2
        /\ cpu' = [cpu EXCEPT !.current_width = cpu'.current_width,
                              !.current_height = cpu'.current_height,
                              !.pc = cpu'.pc] ]_vars

\* C23: when Super-CHIP is the first active extension of the list, a tick of
\* 00FF leaves the viewport 128x64 and a tick of 00FE leaves it 64x32, the
\* opcode is consumed by Super-CHIP, pc is old+2, and nothing else of the
\* machine state changes; when an active XO-Chip comes before it, XO-Chip
\* consumes the opcode, sets the same viewport, and clears the planes its mask
\* selects.
C23_Resolution ==
  [][ (Ticked /\ last'.op \in {254, 255} /\ Len(ran') > 0 /\ ran'[1].name # BASE) =>
        /\ result' = OK
        /\ Len(ran') = 1 /\ Ender'.out = CONSUMED
        /\ cpu'.current_width = (IF last'.op = 255 THEN 128 ELSE 64)
        /\ cpu'.current_height = (IF last'.op = 255 THEN 64 ELSE 32)
        /\ cpu'.pc = cpu.pc + 2
        /\ cpu'.screen = cpu.screen
        /\ IF Ender'.name = "Super-CHIP"
             THEN cpu' = [cpu EXCEPT !.current_width = cpu'.current_width,
                                     !.current_height = cpu'.current_height,
                                     !.pc = cpu'.pc]
             ELSE cpu' = [cpu EXCEPT !.current_width = cpu'.current_width,
                                     !.current_height = cpu'.current_height,
                                     !.pc = cpu'.pc,
                                     !.plane_1 = IF cpu.plane_mask \in {1, 3} THEN {} ELSE @,
                                     !.plane_2 = IF cpu.plane_mask \in {2, 3} THEN {} ELSE @] ]_vars

\* Super-CHIP alone took 00FF with a glyph on the display: hi-res, every cell
\* as it was
C23_Witness ==
  /\ TickDone /\ last.op = 255 /\ extensions = <<SCHIP(TRUE)>>
  /\ Ender.name = "Super-CHIP" /\ Ender.out = CONSUMED
  /\ cpu.current_width = 128 /\ cpu.current_height = 64
  /\ cpu.screen # {} /\ cpu.pc = last.pc + 2


\* C24: a DXY0 that Super-CHIP takes, with the 32 sprite bytes inside memory,
\* toggles exactly the pixels ((VX + c) mod width, (VY + r) mod height) of the
\* bits set at row r, column c of the sprite at I (two bytes a row, most
\* significant bit first), and leaves VF at 1 when one of them was set before
\* and at 0 otherwise.
C24_Draw16 ==
  [][ (/\ Ticked /\ D1(last'.op) = 13 /\ D4(last'.op) = 0
       /\ Len(ran') > 0 /\ Ender'.name = "Super-CHIP"
       /\ cpu.i_register + 31 < RAM_SIZE) =>
        LET vx == cpu.registers[D2(last'.op)]
            vy == cpu.registers[D3(last'.op)]
            targets ==
              { ((vx + c) % cpu.current_width) + ((vy + r) % cpu.current_height) * 128 :
                  <<r, c>> \in { p \in (0 .. 15) \X (0 .. 15) :
                                   RowBit(Mem(cpu, cpu.i_register + 2 * p[1]),
                                          Mem(cpu, cpu.i_register + 2 * p[1] + 1), p[2]) = 1 } }
        IN /\ result' = OK /\ Ender'.out = CONSUMED
           /\ cpu'.screen = (cpu.screen \ targets) \cup (targets \ cpu.screen)
           /\ cpu'.registers[15] = (IF targets \cap cpu.screen # {} THEN 1 ELSE 0) ]_vars


\* C25: a 00CN that Super-CHIP takes is consumed in either resolution and
\* moves every pixel of the viewport from (x, y) to (x, y + N): the pixels that
\* would leave the bottom are gone and the N top rows are clear; cells outside
\* the viewport keep their value.
C25_ScrollDown ==
  [][ (/\ Ticked /\ last'.op \div 16 = 12
       /\ Len(ran') > 0 /\ Ender'.name = "Super-CHIP") =>
        LET n == D4(last'.op)
            w == cpu.current_width
            h == cpu.current_height
            InView(i) == i % 128 < w /\ i \div 128 < h
        IN /\ result' = OK /\ Ender'.out = CONSUMED
           /\ cpu'.screen =
                {i \in cpu.screen : ~InView(i)}
                  \cup {i + n * 128 : i \in {j \in cpu.screen : InView(j) /\ j \div 128 + n < h}} ]_vars


\* C26: a 00FB or 00FC that Super-CHIP takes is consumed and moves every pixel
\* of the viewport 4 columns to the right (00FB) or to the left (00FC): the
\* pixels that would leave the viewport are gone and the 4 columns vacated are
\* clear; cells outside the viewport keep their value.
C26_ScrollSideways ==
  [][ (/\ Ticked /\ last'.op \in {251, 252}
       /\ Len(ran') > 0 /\ Ender'.name = "Super-CHIP") =>
        LET w == cpu.current_width
            h == cpu.current_height
            by == IF last'.op = 251 THEN 4 ELSE -4
            InView(i) == i % 128 < w /\ i \div 128 < h
        IN /\ result' = OK /\ Ender'.out = CONSUMED
           /\ cpu'.screen =
                {i \in cpu.screen : ~InView(i)}
                  \cup {i + by : i \in {j \in cpu.screen :
                                         InView(j) /\ (j % 128) + by >= 0 /\ (j % 128) + by < w}} ]_vars


\* C27: with Super-CHIP active and X in 0..7, FX75 is consumed and copies
\* registers 0..X into flags 0..X, changing nothing else but pc; FX85 is
\* consumed and copies flags 0..X into registers 0..X, changing nothing else
\* but pc; and no call other than a consumed FX75 and reset changes the flag
\* bank.  So the registers 0..X an FX85 restores are the ones the last FX75 of
\* the same X saved, whatever opcodes ran between the two.
C27_FlagBank ==
  [][ /\ (/\ Ticked /\ D1(last'.op) = 15 /\ NN(last'.op) \in {117, 133}
          /\ D2(last'.op) <= 7
          /\ \E i \in DOMAIN extensions : extensions[i] = SCHIP(TRUE)) =>
           LET X == D2(last'.op)
           IN /\ result' = OK
              /\ Ender'.name = "Super-CHIP" /\ Ender'.out = CONSUMED
              /\ cpu'.pc = cpu.pc + 2
              /\ IF NN(last'.op) = 117
                   THEN /\ \A f \in 0 .. 7 :
                             cpu'.rpl_flags[f] = IF f <= X THEN cpu.registers[f]
                                                          ELSE cpu.rpl_flags[f]
                        /\ cpu' = [cpu EXCEPT !.pc = cpu'.pc, !.rpl_flags = cpu'.rpl_flags]
                   ELSE /\ \A r \in 0 .. 15 :
                             cpu'.registers[r] = IF r <= X THEN cpu.rpl_flags[r]
                                                           ELSE cpu.registers[r]
                        /\ cpu' = [cpu EXCEPT !.pc = cpu'.pc, !.registers = cpu'.registers]
      /\ cpu'.rpl_flags # cpu.rpl_flags =>
           \/ last'.kind = "reset"
           \/ /\ Ticked /\ D1(last'.op) = 15 /\ NN(last'.op) = 117
              /\ Ender'.name = "Super-CHIP" /\ Ender'.out = CONSUMED ]_vars

\* F285 has restored registers 0..2 to the 5, 6, 7 that F275 saved, after V0
\* and V1 were overwritten, the resolution switched and an addition ran
C27_Witness ==
  /\ TickDone /\ last.op = Op(15, 2, 8, 5) /\ buffer = Bytes(RomFlags)
  /\ Ender.name = "Super-CHIP" /\ Ender.out = CONSUMED
  /\ cpu.registers[0] = 5 /\ cpu.registers[1] = 6 /\ cpu.registers[2] = 7
  /\ cpu.rpl_flags[0] = 5 /\ cpu.rpl_flags[1] = 6 /\ cpu.rpl_flags[2] = 7
  /\ cpu.current_width = 128


\* C28: when an active Super-CHIP or an active XO-Chip is in the list, a tick
\* of 00FD returns an error: the first active extension answers with its exit
\* message, which is neither consumed nor declined, no later extension and not
\* the base table runs, and nothing but pc has changed.
C28_Exit ==
  [][ (/\ Ticked /\ last'.op = 253
       /\ \E i \in DOMAIN extensions : extensions[i] \in {SCHIP(TRUE), XO(TRUE)}) =>
        /\ result' \in {"S-CHIP Exit instruction (00FD) encountered.",
                        "XO-Chip Exit instruction (00FD) encountered."}
        /\ Len(ran') = 1 /\ Ender'.who # 0 /\ Ender'.name # BASE
        /\ extensions[Ender'.who].active
        /\ \A i \in 1 .. Ender'.who - 1 : ~extensions[i].active
        /\ Ender'.out = result' /\ Ender'.out \notin {CONSUMED, DECLINED, OK}
        /\ \A i \in 1 .. Len(ran') : ran'[i].name # BASE
        /\ cpu' = [cpu EXCEPT !.pc = cpu.pc + 2] ]_vars

\* XO-Chip, behind an inactive Super-CHIP, stopped the run at 00FD
C28_Witness ==
  /\ TickDone /\ last.op = 253 /\ extensions = <<SCHIP(FALSE), XO(TRUE)>>
  /\ result = "XO-Chip Exit instruction (00FD) encountered."
  /\ Len(ran) = 1 /\ Ender.who = 2 /\ cpu.plane_1 # {}


\* C29: the plane mask is one of 0, 1, 2, 3 in every state and is 1 after
\* construction and after reset; with XO-Chip active FX01 is consumed by it and
\* leaves the mask at VX mod 4; and no call other than a consumed FX01 and
\* reset changes the mask.
C29_PlaneMask ==
  /\ [](/\ cpu.plane_mask \in {0, 1, 2, 3}
        /\ last.kind \in {"new", "reset"} => cpu.plane_mask = 1)
  /\ [][ /\ (/\ Ticked /\ D1(last'.op) = 15 /\ NN(last'.op) = 1
             /\ \E i \in DOMAIN extensions : extensions[i] = XO(TRUE)) =>
              /\ result' = OK
              /\ Ender'.name = "XO-Chip" /\ Ender'.out = CONSUMED
              /\ cpu'.plane_mask = cpu.registers[D2(last'.op)] % 4
              /\ cpu' = [cpu EXCEPT !.pc = cpu.pc + 2, !.plane_mask = cpu'.plane_mask]
         /\ cpu'.plane_mask # cpu.plane_mask =>
              \/ last'.kind = "reset"
              \/ /\ Ticked /\ D1(last'.op) = 15 /\ NN(last'.op) = 1
                 /\ Ender'.name = "XO-Chip" /\ Ender'.out = CONSUMED ]_vars

\* F001 with V0 = 7 left the mask at 3
C29_Witness ==
  /\ TickDone /\ last.op = Op(15, 0, 0, 1) /\ cpu.registers[0] = 7
  /\ Ender.name = "XO-Chip" /\ Ender.out = CONSUMED
  /\ cpu.plane_mask = 3


\* C30: when XO-Chip is the first active extension of the list, a tick of
\* 00FC is consumed by it, with no other executor run, and shifts the selected
\* planes 4 columns to the left as scroll_left does; a tick of 00C0..00CF is
\* consumed by it and moves the selected planes down by the low nibble as
\* scroll_down does.
C30_XoScroll ==
  [][ (/\ Ticked /\ (last'.op = 252 \/ last'.op \div 16 = 12)
       /\ Len(ran') > 0 /\ ran'[1].name = "XO-Chip") =>
        /\ result' = OK
        /\ Len(ran') = 1 /\ Ender'.out = CONSUMED
        /\ cpu' = [(IF last'.op = 252 THEN XoScrollLeft(cpu)
                                      ELSE XoScrollDown(cpu, D4(last'.op)))
                     EXCEPT !.pc = cpu.pc + 2] ]_vars


\* C31: a DXYK (K in 1..15) that XO-Chip draws to the end toggles, in every
\* plane the mask selects, exactly the pixels ((VX + c) mod width,
\* (VY + r) mod height) of the bits set at row r, column c of the K sprite
\* bytes at I, leaves a plane the mask does not select and the display buffer
\* as they were, and leaves VF at 1 when one of these pixels was set in a
\* selected plane and at 0 otherwise.  The pixels being distinct, the same
\* draw repeated returns both planes to what they were before the first.
C31_XoDraw ==
  [][ (/\ Ticked /\ D1(last'.op) = 13 /\ D4(last'.op) # 0
       /\ Len(ran') > 0 /\ Ender'.name = "XO-Chip" /\ result' = OK) =>
        LET vx == IF D2(last'.op) = 15 THEN 0 ELSE cpu.registers[D2(last'.op)]
            vy == IF D3(last'.op) = 15 THEN 0 ELSE cpu.registers[D3(last'.op)]
            targets ==
              { ((vx + c) % cpu.current_width) + ((vy + r) % cpu.current_height) * 128 :
                  <<r, c>> \in { p \in (0 .. D4(last'.op) - 1) \X (0 .. 7) :
                                   Bit(Mem(cpu, cpu.i_register + p[1]), 7 - p[2]) = 1 } }
            Drawn(plane) == (plane \ targets) \cup (targets \ plane)
            one == cpu.plane_mask \in {1, 3}
            two == cpu.plane_mask \in {2, 3}
        IN /\ Ender'.out = CONSUMED
           /\ cpu'.plane_1 = (IF one THEN Drawn(cpu.plane_1) ELSE cpu.plane_1)
           /\ cpu'.plane_2 = (IF two THEN Drawn(cpu.plane_2) ELSE cpu.plane_2)
           /\ cpu'.registers[15] =
                (IF \/ one /\ targets \cap cpu.plane_1 # {}
                    \/ two /\ targets \cap cpu.plane_2 # {} THEN 1 ELSE 0)
           /\ cpu'.screen = cpu.screen
           /\ Drawn(Drawn(cpu.plane_1)) = cpu.plane_1
           /\ Drawn(Drawn(cpu.plane_2)) = cpu.plane_2 ]_vars

\* mask 3, one sprite row drawn twice on empty planes: both planes are empty
\* again and VF is 1
C31_Witness ==
  /\ TickDone /\ last.op = Op(13, 1, 2, 1) /\ last.pc = At(7)
  /\ extensions = <<XO(TRUE)>> /\ cpu.plane_mask = 3
  /\ Ender.name = "XO-Chip" /\ Ender.out = CONSUMED
  /\ cpu.plane_1 = {} /\ cpu.plane_2 = {} /\ cpu.registers[15] = 1


\* C32: a DXY0 that XO-Chip draws to the end toggles, with mask 3, the pixels
\* of plane 1 where the bitmap at I..I+31 has a set bit and the pixels of plane
\* 2 where the bitmap at I+32..I+63 has a set bit, each plane whatever the
\* other bitmap holds; with mask 1 or 2 the one selected plane is toggled where
\* the bitmap at I..I+31 has a set bit and the other plane is left as it was.
C32_XoDraw16 ==
  [][ (/\ Ticked /\ D1(last'.op) = 13 /\ D4(last'.op) = 0
       /\ Len(ran') > 0 /\ Ender'.name = "XO-Chip" /\ result' = OK
       /\ cpu.plane_mask # 0) =>
        LET vx == IF D2(last'.op) = 15 THEN 0 ELSE cpu.registers[D2(last'.op)]
            vy == IF D3(last'.op) = 15 THEN 0 ELSE cpu.registers[D3(last'.op)]
            Targets(base) ==
              { ((vx + c) % cpu.current_width) + ((vy + r) % cpu.current_height) * 128 :
                  <<r, c>> \in { p \in (0 .. 15) \X (0 .. 15) :
                                   RowBit(Mem(cpu, base + 2 * p[1]),
                                          Mem(cpu, base + 2 * p[1] + 1), p[2]) = 1 } }
            first == Targets(cpu.i_register)
            second == Targets(cpu.i_register + 32)
            Drawn(plane, t) == (plane \ t) \cup (t \ plane)
        IN /\ Ender'.out = CONSUMED
           /\ cpu'.plane_1 = (IF cpu.plane_mask \in {1, 3} THEN Drawn(cpu.plane_1, first)
                                                            ELSE cpu.plane_1)
           /\ cpu'.plane_2 = (CASE cpu.plane_mask = 3 -> Drawn(cpu.plane_2, second)
                                [] cpu.plane_mask = 2 -> Drawn(cpu.plane_2, first)
                                [] OTHER -> cpu.plane_2) ]_vars


\* C33: with XO-Chip active, 5XY2 and 5XY3 with X <= Y and the cells
\* I .. I + (Y - X) inside memory are consumed by it: 5XY2 writes register
\* X + j to memory[I + j] and 5XY3 reads register X + j from memory[I + j] for
\* j in 0 .. Y - X, nothing else changes but pc, and I is left at
\* I + (Y - X) + 1.  With X > Y XO-Chip declines the opcode and no register, no
\* memory cell and not I has changed when the step ends.
C33_RegisterRange ==
  [][ (/\ Ticked /\ D1(last'.op) = 5 /\ D4(last'.op) \in {2, 3}
       /\ \E i \in DOMAIN extensions : extensions[i] = XO(TRUE)) =>
        LET X == D2(last'.op)
            Y == D3(last'.op)
            I == cpu.i_register
            xo == CHOOSE i \in DOMAIN ran' : ran'[i].name = "XO-Chip"
        IN /\ \E i \in DOMAIN ran' : ran'[i].name = "XO-Chip"
           /\ IF X > Y
                THEN /\ ran'[xo].out = DECLINED
                     /\ cpu' = [cpu EXCEPT !.pc = cpu.pc + 2]
                ELSE (I + (Y - X) < RAM_SIZE) =>
                       /\ result' = OK /\ ran'[xo].out = CONSUMED /\ xo = Len(ran')
                       /\ cpu'.i_register = I + (Y - X) + 1
                       /\ cpu'.pc = cpu.pc + 2
                       /\ IF D4(last'.op) = 2
                            THEN /\ \A a \in 0 .. RAM_SIZE - 1 :
                                      Mem(cpu', a) = IF a >= I /\ a <= I + (Y - X)
                                                       THEN cpu.registers[X + (a - I)]
                                                       ELSE Mem(cpu, a)
                                 /\ cpu'.registers = cpu.registers
                            ELSE /\ \A r \in 0 .. 15 :
                                      cpu'.registers[r] = IF r >= X /\ r <= Y
                                                            THEN Mem(cpu, I + (r - X))
                                                            ELSE cpu.registers[r]
                                 /\ cpu'.memory = cpu.memory
                       /\ cpu' = [cpu EXCEPT !.pc = cpu'.pc, !.i_register = cpu'.i_register,
                                             !.memory = cpu'.memory,
                                             !.registers = cpu'.registers] ]_vars


\* 5012 with I = 4032 wrote V0 = 1 and V1 = 17 there and left I at 4034
C33_Witness ==
  /\ TickDone /\ last.op = Op(5, 0, 1, 2) /\ result = OK
  /\ Ender.name = "XO-Chip" /\ Ender.out = CONSUMED
  /\ cpu.i_register = 4034 /\ Mem(cpu, 4032) = 1 /\ Mem(cpu, 4033) = 17
  /\ cpu.registers[0] = 1 /\ cpu.registers[1] = 17


\* C34 as stated: whenever an XO-Chip extension is active in the list, a tick
\* of 00FE leaves the viewport 64x32 and a tick of 00FF leaves it 128x64, the
\* planes the mask selects are cleared, and a plane the mask does not select
\* keeps every pixel.
C34_XoResolutionOriginal ==
  [][ (/\ Ticked /\ last'.op \in {254, 255}
       /\ \E i \in DOMAIN extensions : extensions[i] = XO(TRUE)) =>
        /\ result' = OK
        /\ cpu'.current_width = (IF last'.op = 255 THEN 128 ELSE 64)
        /\ cpu'.current_height = (IF last'.op = 255 THEN 64 ELSE 32)
        /\ cpu'.plane_1 = (IF cpu.plane_mask \in {1, 3} THEN {} ELSE cpu.plane_1)
        /\ cpu'.plane_2 = (IF cpu.plane_mask \in {2, 3} THEN {} ELSE cpu.plane_2) ]_vars

\* C34: when XO-Chip is the first active extension of the list, a tick of 00FE
\* leaves the viewport 64x32 and a tick of 00FF leaves it 128x64, XO-Chip
\* consumes the opcode, the planes the mask selects are cleared, a plane the
\* mask does not select keeps every pixel, and nothing else changes but pc;
\* when an active Super-CHIP comes before it, the planes stay as they were.
C34_XoResolution ==
  [][ (/\ Ticked /\ last'.op \in {254, 255}
       /\ \E i \in DOMAIN extensions : extensions[i] = XO(TRUE)) =>
        /\ result' = OK /\ Len(ran') = 1 /\ Ender'.out = CONSUMED
        /\ cpu'.current_width = (IF last'.op = 255 THEN 128 ELSE 64)
        /\ cpu'.current_height = (IF last'.op = 255 THEN 64 ELSE 32)
        /\ IF Ender'.name = "XO-Chip"
             THEN /\ cpu'.plane_1 = (IF cpu.plane_mask \in {1, 3} THEN {} ELSE cpu.plane_1)
                  /\ cpu'.plane_2 = (IF cpu.plane_mask \in {2, 3} THEN {} ELSE cpu.plane_2)
             ELSE /\ cpu'.plane_1 = cpu.plane_1
                  /\ cpu'.plane_2 = cpu.plane_2
        /\ \A i \in 1 .. Ender'.who - 1 : ~extensions[i].active
        /\ cpu' = [cpu EXCEPT !.pc = cpu.pc + 2,
                              !.current_width = cpu'.current_width,
                              !.current_height = cpu'.current_height,
                              !.plane_1 = cpu'.plane_1,
                              !.plane_2 = cpu'.plane_2] ]_vars

\* 00FF with mask 2 and a glyph on both planes: plane 1 kept it, plane 2 is
\* clear, the viewport is 128x64
C34_Witness ==
  /\ TickDone /\ last.op = 255 /\ last.pc = At(8) /\ extensions = <<XO(TRUE)>>
  /\ Ender.name = "XO-Chip" /\ Ender.out = CONSUMED
  /\ cpu.plane_mask = 2 /\ cpu.plane_1 # {} /\ cpu.plane_2 = {}
  /\ cpu.current_width = 128 /\ cpu.current_height = 64


\* C35: with XO-Chip active, after a tick of 00E0 every viewport pixel of
\* every plane the mask selects is clear, and a plane the mask does not select
\* is as it was.
C35_XoClear ==
  [][ (/\ Ticked /\ last'.op = 224
       /\ \E i \in DOMAIN extensions : extensions[i] = XO(TRUE)) =>
        LET InView(i) == i % 128 < cpu.current_width /\ i \div 128 < cpu.current_height
        IN /\ result' = OK
           /\ IF cpu.plane_mask \in {1, 3}
                THEN \A i \in cpu'.plane_1 : ~InView(i)
                ELSE cpu'.plane_1 = cpu.plane_1
           /\ IF cpu.plane_mask \in {2, 3}
                THEN \A i \in cpu'.plane_2 : ~InView(i)
                ELSE cpu'.plane_2 = cpu.plane_2 ]_vars


\* C36: a tick that directly follows a tick that returned an error fetches at
\* the same address and returns the same error.
C36_FaultRepeats ==
  [][ (/\ Ticked /\ last.kind = "tick" /\ last.op >= 0
       /\ result \notin {OK, PANIC}) =>
        /\ last'.pc = last.pc
        /\ last'.op = last.op
        /\ result' = result ]_vars


\* C37: when XO-Chip is the first active extension of the list, in either
\* viewport, a tick of 00CN is consumed by it and moves each pixel of every
\* selected plane from (x, y) of the viewport to (x, y + N), a pixel being the
\* cell x + y * 128 as in the draw opcodes: the pixels that would leave the
\* bottom are gone, the N top rows are clear, and a plane the mask does not
\* select and the display buffer are as they were.
C37_XoScrollDown ==
  [][ (/\ Ticked /\ last'.op \div 16 = 12
       /\ Len(ran') > 0 /\ ran'[1].name = "XO-Chip") =>
        LET n == D4(last'.op)
            w == cpu.current_width
            h == cpu.current_height
            InView(i) == i % 128 < w /\ i \div 128 < h
            Scrolled(plane) ==
              {i \in plane : ~InView(i)}
                \cup {i + n * 128 : i \in {j \in plane : InView(j) /\ j \div 128 + n < h}}
        IN /\ result' = OK /\ Ender'.out = CONSUMED /\ Len(ran') = 1
           /\ cpu'.plane_1 = (IF cpu.plane_mask \in {1, 3} THEN Scrolled(cpu.plane_1)
                                                            ELSE cpu.plane_1)
           /\ cpu'.plane_2 = (IF cpu.plane_mask \in {2, 3} THEN Scrolled(cpu.plane_2)
                                                            ELSE cpu.plane_2)
           /\ cpu'.screen = cpu.screen ]_vars


\* C38: with Super-CHIP active, a tick of FX75 or FX85 returns Ok for every X
\* in 0..15, Super-CHIP having consumed the opcode, and the flag bank keeps its
\* FLAG_COUNT slots.
C38_FlagSlots ==
  [][ (/\ Ticked /\ D1(last'.op) = 15 /\ NN(last'.op) \in {117, 133}
       /\ \E i \in DOMAIN extensions : extensions[i] = SCHIP(TRUE)) =>
        /\ result' = OK
        /\ Ender'.name = "Super-CHIP" /\ Ender'.out = CONSUMED
        /\ DOMAIN cpu'.rpl_flags = 0 .. FLAG_COUNT - 1 ]_vars


\* C39: a tick that returns an error leaves every field of the machine state
\* but pc as it was before the tick: registers (VF among them), memory, the
\* display buffer and both planes, the stack and its pointer, I and the timers.
C39_ErrorKeepsState ==
  [][ (Ticked /\ result' \notin {OK, PANIC}) =>
        cpu' = [cpu EXCEPT !.pc = cpu'.pc] ]_vars


\* C40: once the operator has issued continue at a pause that should_break
\* made, with pc at a breakpoint address, the driver eventually executes the
\* instruction at that address (a step or a frame fetches there), unless run
\* has ended.
C40_ContinueResumes ==
  \A a \in BreakAddrs :
    (last.kind = "continue" /\ driver.hit /\ cpu.pc = a /\ a \in driver.breakpoints)
      ~> (\/ driver.at = "exit"
          \/ /\ last.kind \in {"frame", "step"}
             /\ \E i \in DOMAIN last.args : last.args[i] = a)

====
